---- MODULE Spec2Model ----
(***************************************************************************)
(* Transaction log engine of babrahams:transactions2                      *)
(* (lib/transactions-common.js): the builder `tx`, the executor methods   *)
(* _meteorTransactionsProcess / Undo / Redo, the rollback pass and the    *)
(* inverse operation calculator, over one application collection.         *)
(***************************************************************************)
EXTENDS Integers, Sequences, FiniteSets, TLC

(***************************************************************************)
(* Bounds of the model                                                     *)
(***************************************************************************)
\* transaction ids handed out by Random.id() in one run
MaxTx == 2
\* document ids of the application collection; 1..InitDocs exist initially
MaxDoc == 2
\* actions queued over a whole run (all transactions together)
MaxTotalItems == 2
\* the same where only the executor's own builder and undo/redo are called
MaxBuilderItems == 3
\* largest number a document field may hold when the executor is called again
MaxNum == 3
\* nested start() calls counted by _startAttempts
MaxStartAttempts == 2
\* largest number / array element used by the inverse calculator check
MaxVal == 2

TxIds == 1..MaxTx
DocIds == 1..MaxDoc
Fields == {"a", "b"}

(***************************************************************************)
(* Values of document fields and of modifier arguments.  One record shape *)
(* for every JavaScript value the engine handles:                         *)
(*   absent  undefined (no such field)                                     *)
(*   num     a number n                                                    *)
(*   str     the empty string '' ($unset's placeholder value)              *)
(*   obj     an object {bar: n} (an array element, a $pull argument)       *)
(*   arr     an array of objects {bar: s[i]}                               *)
(*   jsonobj / jsonarr   {json: JSON.stringify(v)} of an obj / arr         *)
(***************************************************************************)
Val(k, n, s) == [k |-> k, n |-> n, s |-> s]
Absent == Val("absent", 0, <<>>)
Num(n) == Val("num", n, <<>>)
Str0 == Val("str", 0, <<>>)
Obj(n) == Val("obj", n, <<>>)
Arr(s) == Val("arr", 0, s)

Pair(key, value) == [key |-> key, value |-> value]

\* _packageForStorage, per value: objects and arrays become {json: ...}
packageValue(v) ==
  IF v.k = "obj" THEN [v EXCEPT !.k = "jsonobj"]
  ELSE IF v.k = "arr" THEN [v EXCEPT !.k = "jsonarr"]
  ELSE v

\* _unpackageForUpdate, per value: JSON.parse when val.value.json is set
unpackageValue(v) ==
  IF v.k = "jsonobj" THEN [v EXCEPT !.k = "obj"]
  ELSE IF v.k = "jsonarr" THEN [v EXCEPT !.k = "arr"]
  ELSE v

\* an update or inverse as {command, data}; data is the ordered key/value list
Op(command, data) == [command |-> command, data |-> data]
NoOp == Op("", <<>>)

_packageForStorage(update) ==
  Op(update.command,
     [i \in 1..Len(update.data) |-> Pair(update.data[i].key, packageValue(update.data[i].value))])

_unpackageForUpdate(data) ==
  [i \in 1..Len(data) |-> Pair(data[i].key, unpackageValue(data[i].value))]

(***************************************************************************)
(* The store collaborator: documents and Mongo's update operators          *)
(***************************************************************************)
NoFields == [k \in Fields |-> Absent]
\* a document; transaction_id 0 and deleted FALSE stand for absent fields
Doc(f, txid, deleted) == [exists |-> TRUE, f |-> f, transaction_id |-> txid, deleted |-> deleted]
NoDoc == [exists |-> FALSE, f |-> NoFields, transaction_id |-> 0, deleted |-> FALSE]

RECURSIVE SeqWithout(_, _)
SeqWithout(s, e) ==
  IF s = <<>> THEN <<>>
  ELSE IF Head(s) = e THEN SeqWithout(Tail(s), e)
  ELSE <<Head(s)>> \o SeqWithout(Tail(s), e)

InSeq(s, e) == \E i \in 1..Len(s) : s[i] = e

\* the array element a modifier argument stands for: n for the object {bar: n},
\* a negative number for anything else (a packaged {json: ...} is another object)
Elem(v) == IF v.k = "obj" THEN v.n ELSE 0 - (1 + v.n)

\* one key of one Mongo update operator applied to a field value
ApplyField(command, old, v) ==
  CASE command = "$set" -> v
    [] command = "$unset" -> Absent
    [] command = "$inc" -> IF old.k = "num" THEN Num(old.n + v.n) ELSE v
    [] command = "$mul" -> IF old.k = "num" THEN Num(old.n * v.n) ELSE Num(0)
    [] command = "$addToSet" ->
         IF old.k = "arr" THEN (IF InSeq(old.s, Elem(v)) THEN old ELSE Arr(Append(old.s, Elem(v))))
         ELSE Arr(<<Elem(v)>>)
    [] command = "$push" ->
         IF old.k = "arr" THEN Arr(Append(old.s, Elem(v))) ELSE Arr(<<Elem(v)>>)
    [] command = "$pull" ->
         IF old.k = "arr" THEN Arr(SeqWithout(old.s, Elem(v))) ELSE old
    [] OTHER -> old

RECURSIVE ApplyData(_, _, _)
\* {command: data} applied to the fields f, key by key
ApplyData(f, command, data) ==
  IF data = <<>> THEN f
  ELSE ApplyData([f EXCEPT ![Head(data).key] = ApplyField(command, f[Head(data).key], Head(data).value)],
                 command, Tail(data))

UpdateDocUntagged(doc, command, data, tag) ==
  [doc EXCEPT !.f = ApplyData(doc.f, command, data)]

\* Collection.update({_id}, {command: data, $set: {transaction_id: tag}}) on one
\* document; tag 0 is a modifier without the transaction_id overlay
UpdateDoc(doc, command, data, tag) ==
  [doc EXCEPT !.f = ApplyData(doc.f, command, data),
              !.transaction_id = IF tag = 0 THEN @ ELSE tag]

(***************************************************************************)
(* Inverse operation calculator                                            *)
(***************************************************************************)
\* _drillDown on a flat key; an undefined document yields undefined
_drillDown(existingDoc, keyName) ==
  IF existingDoc.exists THEN existingDoc.f[keyName] ELSE Absent

RECURSIVE InverseSetLoop(_, _, _, _)
\* the _.each over the keys: inverseCommand is overwritten by every key,
\* formerValues collects one entry per key
InverseSetLoop(existingDoc, keys, inverseCommand, formerValues) ==
  IF keys = <<>> THEN Op(inverseCommand, formerValues)
  ELSE LET formerVal == _drillDown(existingDoc, Head(keys).key) IN
       IF formerVal.k # "absent"
       THEN InverseSetLoop(existingDoc, Tail(keys), "$set",
                           Append(formerValues, Pair(Head(keys).key, formerVal)))
       ELSE InverseSetLoop(existingDoc, Tail(keys), "$unset",
                           Append(formerValues, Pair(Head(keys).key, Str0)))

_inverseUsingSet(existingDoc, updateMap) ==
  InverseSetLoop(existingDoc, updateMap, "$set", <<>>)

inverseOperationsNegating(command, existingDoc, updateMap) ==
  CASE command = "$addToSet" -> Op("$pull", updateMap)
    [] command = "$pull" -> Op("$addToSet", updateMap)
    [] command = "$push" -> Op("$pull", updateMap)
    [] command = "$inc" ->
         Op("$inc", [i \in 1..Len(updateMap) |->
                       Pair(updateMap[i].key, Num(0 - updateMap[i].value.n))])
    [] OTHER -> _inverseUsingSet(existingDoc, updateMap)

\* tx.inverseOperations[command], with update()'s fallback to _inverseUsingSet
inverseOperations(command, existingDoc, updateMap) ==
  CASE command = "$addToSet" -> Op("$pull", updateMap)
    [] command = "$pull" -> Op("$addToSet", updateMap)
    [] command = "$push" -> Op("$pull", updateMap)
    [] OTHER -> _inverseUsingSet(existingDoc, updateMap)


(***************************************************************************)
(* Items of a transaction and persisted transaction records                *)
(***************************************************************************)
\* one record shape for every item; fields an item does not carry hold
\* NoDoc / NoOp / FALSE
Item(action, id, state, instant, hardDelete, newDoc, doc, update, inverse) ==
  [action |-> action, _id |-> id, state |-> state, instant |-> instant,
   noCheck |-> FALSE, hardDelete |-> hardDelete, newDoc |-> newDoc, doc |-> doc,
   update |-> update, inverse |-> inverse]

\* what Mongo creates for $set "items.<i>.state" beyond the end of the array:
\* null padding, then an object holding only the state
NullItem == Item("", 0, "", FALSE, FALSE, NoDoc, NoDoc, NoOp, NoOp)
StateOnlyItem(state) == Item("", 0, state, FALSE, FALSE, NoDoc, NoDoc, NoOp, NoOp)

_createItemPending(type, id, newDoc, doc, hardDelete, update, inverse, instant) ==
  Item(type, id, "pending", FALSE, hardDelete, newDoc, doc, update, inverse)

\* _createItem: state "pending", or "done" with instant set
_createItem(type, id, newDoc, doc, hardDelete, update, inverse, instant) ==
  Item(type, id, IF instant THEN "done" ELSE "pending", instant, hardDelete,
       newDoc, doc, update, inverse)

\* a persisted transaction.  Its two timestamps are kept apart, as the orders
\* lastModified and undone: the engine only sorts by them and tests undone
\* for presence
\* a context object: per key the value, 0 for a key the object does not hold
NoContext == [k \in {"insert", "update", "remove"} |-> 0]

NoTx == [exists |-> FALSE, state |-> "", items |-> <<>>, expired |-> FALSE,
         context |-> NoContext, user_id |-> 0]
TxRecord(items) == [exists |-> TRUE, state |-> "pending", items |-> items, expired |-> FALSE,
                    context |-> NoContext, user_id |-> 0]

\* a timestamp field set to ServerTime.date(): the transaction becomes the latest
Stamp(order, txid) == SeqWithout(order, txid) \o <<txid>>
\* a timestamp field unset, or the record removed
Unstamp(order, txid) == SeqWithout(order, txid)

RECURSIVE PadItems(_, _)
PadItems(items, n) == IF Len(items) >= n THEN items ELSE PadItems(Append(items, NullItem), n)

_changeItemStateReplacing(tr, txid, index, state) ==
  IF txid \notin TxIds \/ ~tr[txid].exists THEN tr
  ELSE IF index <= Len(tr[txid].items)
       THEN [tr EXCEPT ![txid].items[index] = StateOnlyItem(state)]
       ELSE [tr EXCEPT ![txid].items = Append(PadItems(@, index - 1), StateOnlyItem(state))]

\* _changeItemState: Transactions.update({_id: txid}, {$set: {"items.<index>.state": state}});
\* index counts from 1 here; no record with that _id, no write
_changeItemState(tr, txid, index, state) ==
  IF txid \notin TxIds \/ ~tr[txid].exists THEN tr
  ELSE IF index <= Len(tr[txid].items)
       THEN [tr EXCEPT ![txid].items[index].state = state]
       ELSE [tr EXCEPT ![txid].items = Append(PadItems(@, index - 1), StateOnlyItem(state))]

(***************************************************************************)
(* Writes against the application collection                               *)
(***************************************************************************)
\* w: insert | remove | update | softdelete | undelete | none (no call);
\* removeLive and softdeleteLive carry the server-side selector
\* {_id, deleted: {$exists: false}} of Transact.prototype.remove
\* sel: for remove, the transaction_id the selector demands (0: _id only);
\*      for softdelete and update, the transaction_id written (0: none)
Write(w, id, doc, sel, command, data) ==
  [w |-> w, id |-> id, doc |-> doc, sel |-> sel, command |-> command, data |-> data]

\* the outcome of one write: the store, the number of documents affected and
\* whether the call threw (insert of an _id that exists)
ApplyWrite(st, wr) ==
  LET d == IF wr.id \in DocIds THEN st[wr.id] ELSE NoDoc IN
  CASE wr.w = "insert" ->
         IF d.exists THEN [store |-> st, n |-> 0, threw |-> TRUE]
         ELSE [store |-> [st EXCEPT ![wr.id] = wr.doc], n |-> 1, threw |-> FALSE]
    [] wr.w = "remove" ->
         IF d.exists /\ (wr.sel = 0 \/ d.transaction_id = wr.sel)
         THEN [store |-> [st EXCEPT ![wr.id] = NoDoc], n |-> 1, threw |-> FALSE]
         ELSE [store |-> st, n |-> 0, threw |-> FALSE]
    [] wr.w = "update" ->
         IF d.exists
         THEN [store |-> [st EXCEPT ![wr.id] = UpdateDoc(d, wr.command, wr.data, wr.sel)],
               n |-> 1, threw |-> FALSE]
         ELSE [store |-> st, n |-> 0, threw |-> FALSE]
    [] wr.w = "softdelete" ->
         IF d.exists
         THEN [store |-> [st EXCEPT ![wr.id] = [d EXCEPT !.deleted = TRUE, !.transaction_id = wr.sel]],
               n |-> 1, threw |-> FALSE]
         ELSE [store |-> st, n |-> 0, threw |-> FALSE]
    [] wr.w = "undelete" ->
         IF d.exists
         THEN [store |-> [st EXCEPT ![wr.id] = [d EXCEPT !.deleted = FALSE, !.transaction_id = 0]],
               n |-> 1, threw |-> FALSE]
         ELSE [store |-> st, n |-> 0, threw |-> FALSE]
    [] wr.w = "removeLive" ->
         IF d.exists /\ ~d.deleted
         THEN [store |-> [st EXCEPT ![wr.id] = NoDoc], n |-> 1, threw |-> FALSE]
         ELSE [store |-> st, n |-> 0, threw |-> FALSE]
    [] wr.w = "softdeleteLive" ->
         IF d.exists /\ ~d.deleted
         THEN [store |-> [st EXCEPT ![wr.id] = [d EXCEPT !.deleted = TRUE, !.transaction_id = wr.sel]],
               n |-> 1, threw |-> FALSE]
         ELSE [store |-> st, n |-> 0, threw |-> FALSE]
    [] OTHER -> [store |-> st, n |-> 1, threw |-> FALSE]

\* what an observer of the collection sees of a write
Seen(wr) == [w |-> wr.w, id |-> wr.id]

NoWrite == Write("none", 0, NoDoc, 0, "", <<>>)

(***************************************************************************)
(* State                                                                   *)
(***************************************************************************)
VARIABLES
  store,             \* the application collection: [DocIds -> document or NoDoc]
  Transactions,      \* the transactions collection: [TxIds -> record or NoTx]
  _transaction_id,   \* tx._transaction_id; 0 is null
  _items,            \* tx._items
  _autoTransaction,  \* tx._autoTransaction
  _startAttempts,    \* tx._startAttempts
  _rollback,         \* tx._rollback
  _rollbackReason,   \* tx._rollbackReason
  _autoCancel,       \* TRUE while the idle timer of tx._autoCancel is armed
  lastModified,      \* the transactions by their lastModified, latest last
  undone,            \* the transactions that have an undone timestamp, latest last
  nextTx,            \* the next transaction id Random.id() hands out
  nextDoc,           \* the next document id Random.id() / the store hands out
  calc,              \* inputs and outputs of the inverse calculator check
  denied,            \* the kinds of action tx.checkPermission denies
  _context,          \* tx._context
  userId             \* Meteor.userId() of the caller

vars == <<store, Transactions, _transaction_id, _items, _autoTransaction, _startAttempts,
          _rollback, _rollbackReason, _autoCancel, lastModified, undone, nextTx, nextDoc,
          calc, denied, _context, userId>>

(***************************************************************************)
(* Configuration of tx                                                     *)
(***************************************************************************)
\* tx.removeRolledBackTransactions
removeRolledBackTransactions == FALSE

\* tx.selfRepairMode
selfRepairMode == "complete"

\* tx.checkPermission: the predicate the application installed, here one that
\* decides by the kind of action; the constructor's default grants everything
checkPermission(action, doc, modifier) == action \notin denied

_permissionCheck(action, doc, updates) == checkPermission(action, doc, updates)

\* tx.makeContext as an application installs it (the constructor's default
\* returns {}): under the kind of the action, the _id of the document handed
\* to it plus one, and one for a document that has no _id
makeContext(command, id) == [NoContext EXCEPT ![command] = id + 1]

\* the outcome of a call as its caller and the collection's observers see it
Out(result, txid, writes) == [result |-> result, txid |-> txid, writes |-> writes]
NoOut == Out("", 0, <<>>)

\* the state a handler works on
Cur ==
  [store |-> store, tr |-> Transactions, _transaction_id |-> _transaction_id,
   _items |-> _items, _autoTransaction |-> _autoTransaction,
   _startAttempts |-> _startAttempts, _rollback |-> _rollback,
   _rollbackReason |-> _rollbackReason, _autoCancel |-> _autoCancel,
   lastModified |-> lastModified, undone |-> undone,
   nextTx |-> nextTx, nextDoc |-> nextDoc, _context |-> _context,
   userId |-> userId, out |-> NoOut]

(***************************************************************************)
(* Transaction Builder: internal methods                                   *)
(***************************************************************************)
\* _cleanReset (on the server it also clears the idle timer)
_cleanReset(s) ==
  [s EXCEPT !._transaction_id = 0, !._autoTransaction = FALSE, !._items = <<>>,
            !._startAttempts = 0, !._rollback = FALSE, !._rollbackReason = "",
            !._autoCancel = FALSE, !._context = NoContext]

\* _setContext: _.extend(this._context, context)
_setContext(s, context) ==
  [s EXCEPT !._context = [k \in DOMAIN @ |-> IF context[k] # 0 THEN context[k] ELSE @[k]]]

\* _resetAutoCancel: clear and re-arm the idle timer
_resetAutoCancel(s) == [s EXCEPT !._autoCancel = TRUE]

startAnew(s) ==
  LET s1 == _resetAutoCancel(s) IN
  [s1 EXCEPT !._transaction_id = s1.nextTx, !.nextTx = @ + 1,
             !.out = Out("started", s1.nextTx, <<>>)]

startUntimed(s) ==
  IF s._transaction_id = 0
  THEN [s EXCEPT !._transaction_id = s.nextTx, !.nextTx = @ + 1,
                 !.out = Out("started", s.nextTx, <<>>)]
  ELSE [s EXCEPT !._startAttempts = @ + 1,
                 !.out = Out("false", s._transaction_id, <<>>)]

\* Transact.prototype.start with a user logged in; it returns the new id, or
\* false when a transaction is open
start(s) ==
  LET s1 == _resetAutoCancel(s) IN
  IF s1._transaction_id = 0
  THEN [s1 EXCEPT !._transaction_id = s1.nextTx, !.nextTx = @ + 1,
                  !.out = Out("started", s1.nextTx, <<>>)]
  ELSE [s1 EXCEPT !._startAttempts = @ + 1,
                  !.out = Out("false", s1._transaction_id, <<>>)]

_openAutoTransaction(s) ==
  IF s._transaction_id = 0 THEN start([s EXCEPT !._autoTransaction = TRUE]) ELSE s

\* _pushToRecord
_pushToRecord(s, item) == _resetAutoCancel([s EXCEPT !._items = Append(@, item)])

_recordTransactionInsertOnly(s, item) ==
  LET id == s._transaction_id
      fresh == ~s.tr[id].exists
  IN [s EXCEPT !.tr = IF fresh
                      THEN [@ EXCEPT ![id] = [TxRecord(<<>>) EXCEPT !.context = s._context,
                                                                    !.user_id = s.userId]]
                      ELSE @,
               !.lastModified = IF fresh THEN Stamp(@, id) ELSE @]

\* _recordTransaction: create the pending record if there is none, then
\* $addToSet the item
_recordTransaction(s, item) ==
  LET id == s._transaction_id
      fresh == ~s.tr[id].exists
      tr1 == IF fresh
             THEN [s.tr EXCEPT ![id] = [TxRecord(<<>>) EXCEPT !.context = s._context,
                                                              !.user_id = s.userId]]
             ELSE s.tr
      tr2 == IF InSeq(tr1[id].items, item) THEN tr1
             ELSE [tr1 EXCEPT ![id].items = Append(@, item)]
  IN [s EXCEPT !.tr = tr2, !.lastModified = IF fresh THEN Stamp(@, id) ELSE @]

(***************************************************************************)
(* Rollback                                                                *)
(***************************************************************************)
\* the inverse write rollback() makes for one item of tx._items
RollbackWrite(obj, txid) ==
  CASE obj.action = "remove" /\ obj.instant /\ obj.doc.exists ->
         Write("insert", obj._id, obj.doc, 0, "", <<>>)
    [] obj.action = "remove" /\ obj.instant /\ ~obj.doc.exists ->
         Write("undelete", obj._id, NoDoc, 0, "", <<>>)
    [] obj.action = "update" /\ obj.instant /\ obj.inverse.command # "" ->
         Write("update", obj._id, NoDoc, 0, obj.inverse.command,
               _unpackageForUpdate(obj.inverse.data))
    [] obj.action = "insert" /\ obj.instant ->
         Write("remove", obj._id, NoDoc, txid, "", <<>>)
    [] OTHER -> NoWrite

RECURSIVE RollbackLoop(_, _, _)
\* the _.each over tx._items, first to last; error, once set, stays set
RollbackLoop(s, index, error) ==
  IF index > Len(s._items) THEN s
  ELSE LET Called(wr, r) ==
             RollbackLoop(
               [s EXCEPT !.store = r.store,
                         !.tr = IF error \/ r.threw THEN @
                                ELSE _changeItemState(@, s._transaction_id, index, "rolledBack"),
                         !.out.writes = IF wr.w = "none" THEN @ ELSE Append(@, Seen(wr))],
               index + 1, error \/ r.threw)
           Call(wr) == Called(wr, ApplyWrite(s.store, wr))
       IN Call(RollbackWrite(s._items[index], s._transaction_id))

\* Transact.prototype.rollback
rollback(s) ==
  LET id == s._transaction_id
      found == id \in TxIds /\ s.tr[id].exists
      gone == found /\ removeRolledBackTransactions
      \* the state update after the loop, on what the loop left
      Finish(s1) ==
        _cleanReset([s1 EXCEPT !.tr = IF gone THEN [@ EXCEPT ![id] = NoTx]
                                      ELSE IF found THEN [@ EXCEPT ![id].state = "rolledBack"]
                                      ELSE @,
                               !.lastModified = IF gone THEN Unstamp(@, id) ELSE @,
                               !.undone = IF gone THEN Unstamp(@, id) ELSE @])
  IN Finish(RollbackLoop(s, 1, FALSE))

(***************************************************************************)
(* Two-Phase Commit Coordinator: _meteorTransactionsProcess                *)
(***************************************************************************)
\* the document _checkTransactionFields hands to the permission predicate
CheckedDoc(value, txid, st) ==
  IF value.action = "remove" /\ value.doc.exists /\ value.doc.transaction_id = txid
  THEN value.doc
  ELSE IF value.action = "insert" /\ value.newDoc.exists /\ value.newDoc.transaction_id = txid
  THEN value.newDoc
  ELSE IF value._id \in DocIds THEN st[value._id] ELSE NoDoc

_checkTransactionFieldsOfAll(items, txid, st) ==
  /\ Len(items) > 0
  /\ \A i \in 1..Len(items) :
       LET value == items[i]
           doc == CheckedDoc(value, txid, st)
       IN IF value.action = "update"
          THEN /\ _permissionCheck("update", doc, value.update)
               /\ _permissionCheck("update", doc, value.inverse)
          ELSE _permissionCheck(value.action, doc, NoOp)

\* _checkTransactionFields on the server: no items, or a denied item, fails
_checkTransactionFields(items, txid, st) ==
  /\ Len(items) > 0
  /\ \A i \in 1..Len(items) :
       LET value == items[i]
           doc == CheckedDoc(value, txid, st)
       IN \/ value.noCheck
          \/ IF value.action = "update"
             THEN /\ _permissionCheck("update", doc, value.update)
                  /\ _permissionCheck("update", doc, value.inverse)
             ELSE _permissionCheck(value.action, doc, NoOp)

NoCache == [d \in DocIds |-> [k \in Fields |-> Absent]]

RECURSIVE cacheLoop(_, _, _, _, _)
\* cacheValues: for each key of the item's update that an earlier item of this
\* call wrote to the same document, overwrite in the record the value of THIS
\* item's inverse.data[i] with the cached forward value; then cache this value
cacheLoop(acc, item, index, txid, i) ==
  IF i > Len(item.update.data) THEN acc
  ELSE LET keyValuePair == item.update.data[i]
           cached == acc.cache[item._id][keyValuePair.key]
           tr1 == IF cached.k # "absent" /\ acc.tr[txid].exists
                     /\ index <= Len(acc.tr[txid].items)
                     /\ i <= Len(acc.tr[txid].items[index].inverse.data)
                  THEN [acc.tr EXCEPT ![txid].items[index].inverse.data[i].value =
                                        unpackageValue(cached)]
                  ELSE acc.tr
       IN cacheLoop([acc EXCEPT !.tr = tr1,
                                !.cache[item._id][keyValuePair.key] = keyValuePair.value],
                    item, index, txid, i + 1)

cacheValues(acc, item, index, txid) == cacheLoop(acc, item, index, txid, 1)

ForwardWriteAsStored(item, txid) ==
  CASE item.action = "insert" ->
         Write("insert", item._id, [item.newDoc EXCEPT !.transaction_id = txid], 0, "", <<>>)
    [] item.action = "update" ->
         Write("update", item._id, NoDoc, txid, item.update.command, item.update.data)
    [] item.action = "remove" /\ item.hardDelete ->
         Write("remove", item._id, NoDoc, 0, "", <<>>)
    [] item.action = "remove" /\ ~item.hardDelete ->
         Write("softdelete", item._id, NoDoc, txid, "", <<>>)
    [] OTHER -> NoWrite

\* the store call STEP 2 makes for a non-instant item
ForwardWrite(item, txid) ==
  CASE item.action = "insert" ->
         Write("insert", item._id, [item.newDoc EXCEPT !.transaction_id = txid], 0, "", <<>>)
    [] item.action = "update" ->
         Write("update", item._id, NoDoc, txid, item.update.command,
               _unpackageForUpdate(item.update.data))
    [] item.action = "remove" /\ item.hardDelete ->
         Write("remove", item._id, NoDoc, 0, "", <<>>)
    [] item.action = "remove" /\ ~item.hardDelete ->
         Write("softdelete", item._id, NoDoc, txid, "", <<>>)
    [] OTHER -> NoWrite

RECURSIVE Phase2Continuing(_, _, _, _)
Phase2Continuing(acc, items, index, txid) ==
  IF index > Len(items) \/ acc.threw THEN acc
  ELSE LET item == items[index] IN
       IF item.instant
       THEN Phase2Continuing(IF item.action = "update"
                             THEN cacheValues(acc, item, index, txid) ELSE acc,
                             items, index + 1, txid)
       ELSE LET Cached(acc1) ==
                  IF item.action = "update" THEN cacheValues(acc1, item, index, txid) ELSE acc1
                Marked(acc2) == [acc2 EXCEPT !.tr = _changeItemState(@, txid, index, "done")]
                Called(wr, r) ==
                  IF r.threw THEN [acc EXCEPT !.threw = TRUE]
                  ELSE IF r.n = 0
                  THEN Phase2Continuing([acc EXCEPT !.success = FALSE], items, index + 1, txid)
                  ELSE Phase2Continuing(
                         Marked(Cached([acc EXCEPT !.store = r.store,
                                                   !.writes = IF wr.w = "none" THEN @
                                                              ELSE Append(@, Seen(wr))])),
                         items, index + 1, txid)
                Call(wr) == Called(wr, ApplyWrite(acc.store, wr))
            IN Call(ForwardWrite(item, txid))

RECURSIVE Phase2(_, _, _, _)
\* STEP 2: the _.each over items.  acc: store, tr, success, threw (an insert
\* threw, which ends the method), cache (updateCache), writes
Phase2(acc, items, index, txid) ==
  IF index > Len(items) \/ acc.threw \/ ~acc.success THEN acc
  ELSE LET item == items[index] IN
       IF item.instant
       THEN Phase2(IF item.action = "update" THEN cacheValues(acc, item, index, txid) ELSE acc,
                   items, index + 1, txid)
       ELSE LET Cached(acc1) ==
                  IF item.action = "update" THEN cacheValues(acc1, item, index, txid) ELSE acc1
                Marked(acc2) == [acc2 EXCEPT !.tr = _changeItemState(@, txid, index, "done")]
                Called(wr, r) ==
                  IF r.threw THEN [acc EXCEPT !.threw = TRUE]
                  ELSE IF r.n = 0 THEN [acc EXCEPT !.success = FALSE]
                  ELSE Phase2(Marked(Cached([acc EXCEPT !.store = r.store,
                                                        !.writes = IF wr.w = "none" THEN @
                                                                   ELSE Append(@, Seen(wr))])),
                              items, index + 1, txid)
                Call(wr) == Called(wr, ApplyWrite(acc.store, wr))
            IN Call(ForwardWrite(item, txid))

\* the snapshot loop before STEP 1: items[index].doc = Collection.findOne({_id})
\* for every hard remove, on the method's own copy of items
Snapshots(items, st) ==
  [i \in 1..Len(items) |->
     IF items[i].action = "remove" /\ items[i].hardDelete
     THEN [items[i] EXCEPT !.doc = IF items[i]._id \in DocIds THEN st[items[i]._id] ELSE NoDoc]
     ELSE items[i]]

\* _meteorTransactionsProcess(txid, description, items, context) run on the
\* executor, whose tx is s.  out.result: notAllowed (the method threw before
\* any write) | threw (a store call threw in STEP 2) | done | failed (STEP 2
\* failed and tx.rollback() ran)
_meteorTransactionsProcess(s, txid, items, context) ==
  IF ~_checkTransactionFields(items, txid, s.store)
  THEN [s EXCEPT !.out = Out("notAllowed", txid, <<>>)]
  ELSE
  LET existingTransaction == s.tr[txid].exists
      \* STEP 1, with the items as the snapshot loop left them
      Step1(snap) ==
        IF existingTransaction THEN [s.tr EXCEPT ![txid].items = items]
        ELSE [s.tr EXCEPT ![txid] = [TxRecord(snap) EXCEPT !.context = context,
                                                           !.user_id = s.userId]]
      step1 == IF existingTransaction THEN s.lastModified ELSE Stamp(s.lastModified, txid)
      Step2(snap) ==
        Phase2([store |-> s.store, tr |-> Step1(snap), success |-> TRUE, threw |-> FALSE,
                cache |-> NoCache, writes |-> <<>>], snap, 1, txid)
      \* the end of the method, p being what STEP 2 left
      Step3(p) ==
        IF p.threw
        THEN [s EXCEPT !.store = p.store, !.tr = p.tr, !.lastModified = step1,
                       !.out = Out("threw", txid, p.writes)]
        ELSE IF p.success
        THEN [s EXCEPT !.store = p.store,
                       !.tr = [p.tr EXCEPT ![txid].state = "done"],
                       !.lastModified = Stamp(step1, txid),
                       !.out = Out("done", txid, p.writes)]
        ELSE rollback([s EXCEPT !.store = p.store, !.tr = p.tr, !.lastModified = step1,
                                !.out = Out("failed", txid, p.writes)])
  IN Step3(Step2(Snapshots(items, s.store)))

(***************************************************************************)
(* Transaction Builder: public API                                         *)
(***************************************************************************)
commitAtOnce(s, arg) ==
  IF s._transaction_id = 0
  THEN [_cleanReset(s) EXCEPT !.out = Out("no-transactions-open", 0, <<>>)]
  ELSE IF s._items = <<>>
  THEN [s EXCEPT !.out = Out("empty", s._transaction_id, <<>>)]
  ELSE IF s._rollback
  THEN [rollback(s) EXCEPT !.out.result = s._rollbackReason, !.out.txid = s._transaction_id]
  ELSE LET Returned(p) == IF p.out.result = "done" THEN _cleanReset(p) ELSE p
       IN Returned(_meteorTransactionsProcess(s, s._transaction_id, s._items, s._context))

\* Transact.prototype.commit(txid) with a user logged in.  arg: "none" for
\* commit() / commit(callback), "own" for commit(tx._transaction_id), "other"
\* for commit(a string that is not tx._transaction_id)
commit(s, arg) ==
  IF s._transaction_id = 0
  THEN [_cleanReset(s) EXCEPT !.out = Out("no-transactions-open", 0, <<>>)]
  ELSE IF arg = "other"
  THEN [s EXCEPT !._startAttempts = @ - 1,
                 !.out = Out("multiple-transactions-open", s._transaction_id, <<>>)]
  ELSE IF s._startAttempts > 0 /\ arg # "own"
  THEN [s EXCEPT !._startAttempts = @ - 1,
                 !.out = Out("multiple-transactions-open", s._transaction_id, <<>>)]
  ELSE IF s._items = <<>>
  THEN [s EXCEPT !.out = Out("empty", s._transaction_id, <<>>)]
  ELSE IF s._rollback
  THEN [rollback(s) EXCEPT !.out.result = s._rollbackReason, !.out.txid = s._transaction_id]
  ELSE LET Returned(p) == IF p.out.result = "done" THEN _cleanReset(p) ELSE p
       IN Returned(_meteorTransactionsProcess(s, s._transaction_id, s._items, s._context))

_closeAutoTransaction(s) == IF s._autoTransaction THEN commit(s, "none") ELSE s

\* Transact.prototype.cancel
cancel(s) == [s EXCEPT !._rollback = TRUE, !._rollbackReason = "transaction-cancelled"]

\* Transact.prototype.insert(collection, newDoc, {instant}) with a user logged
\* in and permission granted.  The store and Random.id() hand out fresh ids, so
\* the instant insert cannot throw.
insert(s, fields, instant) ==
  IF s._rollback THEN s
  ELSE IF ~_permissionCheck("insert", Doc(fields, 0, FALSE), NoOp)
  THEN [s EXCEPT !._rollback = TRUE, !._rollbackReason = "permission-denied"]
  ELSE
  LET \* the call from the (automatic) transaction's opening to its closing
      Opened(s1) ==
        LET newId == s1.nextDoc IN
        IF instant \/ s1._autoTransaction
        THEN LET newDoc == Doc(fields, s1._transaction_id, FALSE)
                 item == _createItem("insert", newId, newDoc, NoDoc, FALSE, NoOp, NoOp, TRUE)
                 Inserted(r) ==
                   _pushToRecord(
                     _recordTransaction([s1 EXCEPT !.store = r.store, !.nextDoc = @ + 1], item),
                     item)
             IN Inserted(ApplyWrite(s1.store, Write("insert", newId, newDoc, 0, "", <<>>)))
        ELSE _pushToRecord([s1 EXCEPT !.nextDoc = @ + 1],
                           _createItem("insert", newId, Doc(fields, 0, FALSE), NoDoc, FALSE,
                                       NoOp, NoOp, FALSE))
  IN _closeAutoTransaction(
       Opened(_setContext(_openAutoTransaction(s), makeContext("insert", 0))))

\* _doRemove; threw is the TypeError of fields.doc.transaction_id = ... when
\* findOne(sel) found no document
_doRemove(s, id, instant, softDelete) ==
  IF softDelete
  THEN LET item == _createItem("remove", id, NoDoc, NoDoc, FALSE, NoOp, NoOp, instant)
           s1 == _pushToRecord(s, item)
       IN IF instant
          THEN LET s2 == _recordTransaction(s1, item)
                   r == ApplyWrite(s2.store,
                                   Write("softdeleteLive", id, NoDoc, s._transaction_id, "", <<>>))
               IN [s |-> [s2 EXCEPT !.store = r.store], threw |-> FALSE]
          ELSE [s |-> s1, threw |-> FALSE]
  ELSE IF instant
  THEN LET fullDoc == s.store[id] IN
       IF ~fullDoc.exists \/ fullDoc.deleted THEN [s |-> s, threw |-> TRUE]
       ELSE LET doc == [fullDoc EXCEPT !.transaction_id = s._transaction_id, !.deleted = TRUE]
                item == _createItem("remove", id, NoDoc, doc, TRUE, NoOp, NoOp, TRUE)
                s1 == _recordTransaction(s, item)
                r == ApplyWrite(s1.store, Write("removeLive", id, NoDoc, 0, "", <<>>))
            IN [s |-> _pushToRecord([s1 EXCEPT !.store = r.store], item), threw |-> FALSE]
  ELSE [s |-> _pushToRecord(s, _createItem("remove", id, NoDoc, NoDoc, TRUE, NoOp, NoOp, FALSE)),
        threw |-> FALSE]

\* Transact.prototype.remove(collection, _id, {instant, softDelete})
remove(s, id, instant, softDelete) ==
  IF s._rollback THEN s
  ELSE IF ~_permissionCheck("remove", s.store[id], NoOp)
  THEN [s EXCEPT !._rollback = TRUE, !._rollbackReason = "permission-denied"]
  ELSE
  LET \* the try / catch around _doRemove
      Tried(s1, r) ==
        IF r.threw THEN [s1 EXCEPT !._rollback = TRUE, !._rollbackReason = "remove-error"]
        ELSE r.s
      Opened(s1) == Tried(s1, _doRemove(s1, id, instant, softDelete))
  IN _closeAutoTransaction(
       Opened(_setContext(_openAutoTransaction(s),
                          makeContext("remove", IF s.store[id].exists THEN id ELSE 0))))

\* Transact.prototype.update(collection, _id, {command: updateMap}, {instant})
\* with one command per call.  An update that matches no document is no error.
update(s, id, updateData, instant) ==
  IF s._rollback THEN s
  ELSE IF ~_permissionCheck("update", s.store[id], updateData)
  THEN [s EXCEPT !._rollback = TRUE, !._rollbackReason = "permission-denied"]
  ELSE
  LET existingDoc == s.store[id]
      inverse == inverseOperations(updateData.command, existingDoc, updateData.data)
      \* _doUpdate for the item created
      Opened(s1, item) ==
        IF instant
        THEN LET Recorded(s2) ==
                   _pushToRecord(
                     [s2 EXCEPT !.store =
                        ApplyWrite(@, Write("update", id, NoDoc, s1._transaction_id,
                                            updateData.command, updateData.data)).store],
                     item)
             IN Recorded(_recordTransaction(s1, item))
        ELSE _pushToRecord(s1, item)
  IN _closeAutoTransaction(
       Opened(_setContext(_openAutoTransaction(s),
                          makeContext("update", IF s.store[id].exists THEN id ELSE 0)),
              _createItem("update", id, NoDoc, NoDoc, FALSE, _packageForStorage(updateData),
                          _packageForStorage(inverse), instant)))

(***************************************************************************)
(* Undo/Redo Engine                                                        *)
(***************************************************************************)
ReverseKept(seq) == seq

\* items.reverse()
Reverse(seq) == [i \in 1..Len(seq) |-> seq[Len(seq) + 1 - i]]

\* the position of txid in an order of timestamps
Rank(order, txid) == CHOOSE i \in 1..Len(order) : order[i] = txid

UndoSelectedExpired(s, txid) ==
  LET eligible == {t \in TxIds : /\ s.tr[t].exists
                                 /\ txid # 0 => t = txid
                                 /\ txid = 0 => s.tr[t].user_id = s.userId
                                 /\ ~InSeq(s.undone, t)
                                 /\ s.tr[t].state = "done"}
  IN {t \in eligible : \A u \in eligible :
                         Rank(s.lastModified, u) <= Rank(s.lastModified, t)}

UndoSelectedAgain(s, txid) ==
  LET eligible == {t \in TxIds : /\ s.tr[t].exists
                                 /\ txid # 0 => t = txid
                                 /\ txid = 0 => s.tr[t].user_id = s.userId
                                 /\ ~s.tr[t].expired
                                 /\ s.tr[t].state \in {"done", "undone"}}
  IN {t \in eligible : \A u \in eligible :
                         Rank(s.lastModified, u) <= Rank(s.lastModified, t)}

\* Transactions.find(selector, sorter).fetch()[0] of _meteorTransactionsUndo:
\* the set holds the transaction found, or is empty
UndoSelected(s, txid) ==
  LET eligible == {t \in TxIds : /\ s.tr[t].exists
                                 /\ txid # 0 => t = txid
                                 /\ txid = 0 => s.tr[t].user_id = s.userId
                                 /\ ~InSeq(s.undone, t)
                                 /\ ~s.tr[t].expired
                                 /\ s.tr[t].state = "done"}
  IN {t \in eligible : \A u \in eligible :
                         Rank(s.lastModified, u) <= Rank(s.lastModified, t)}

RedoSelectedOldest(s, txid) ==
  LET eligible == {t \in TxIds : /\ s.tr[t].exists
                                 /\ txid # 0 => t = txid
                                 /\ txid = 0 => s.tr[t].user_id = s.userId
                                 /\ InSeq(s.undone, t)
                                 /\ ~s.tr[t].expired}
  IN {t \in eligible : \A u \in eligible : Rank(s.undone, t) <= Rank(s.undone, u)}

\* the same of _meteorTransactionsRedo
RedoSelected(s, txid) ==
  LET eligible == {t \in TxIds : /\ s.tr[t].exists
                                 /\ txid # 0 => t = txid
                                 /\ txid = 0 => s.tr[t].user_id = s.userId
                                 /\ InSeq(s.undone, t)
                                 /\ ~s.tr[t].expired}
  IN {t \in eligible : \A u \in eligible : Rank(s.undone, u) <= Rank(s.undone, t)}

EditedSinceUnseen(st, id, txid) == FALSE

\* the findOne of the insert branch of undo: the document carries the
\* transaction_id of another transaction
EditedSince(st, id, txid) ==
  /\ st[id].exists
  /\ st[id].transaction_id # 0
  /\ st[id].transaction_id # txid

RECURSIVE UndoQueue(_, _, _, _, _)
\* the _.each over lastTransaction.items.reverse(): q is queuedItems
UndoQueue(items, txid, st, q, expired) ==
  IF items = <<>> THEN [q |-> q, expired |-> expired]
  ELSE LET obj == Head(items) IN
       IF expired THEN UndoQueue(Tail(items), txid, st, q, expired)
       ELSE
       CASE obj.action = "remove" /\ obj.doc.exists ->
              IF st[obj._id].exists
              THEN UndoQueue(Tail(items), txid, st, q, TRUE)
              ELSE UndoQueue(Tail(items), txid, st,
                             Append(q, Write("insert", obj._id, obj.doc, 0, "", <<>>)), FALSE)
         [] obj.action = "remove" /\ ~obj.doc.exists ->
              UndoQueue(Tail(items), txid, st,
                        Append(q, Write("undelete", obj._id, NoDoc, 0, "", <<>>)), FALSE)
         [] obj.action = "update" ->
              IF obj.inverse.command # ""
              THEN UndoQueue(Tail(items), txid, st,
                             Append(q, Write("update", obj._id, NoDoc, 0, obj.inverse.command,
                                             _unpackageForUpdate(obj.inverse.data))), FALSE)
              ELSE UndoQueue(Tail(items), txid, st, q, FALSE)
         [] obj.action = "insert" ->
              UndoQueue(Tail(items), txid, st,
                        Append(q, Write("remove", obj._id, NoDoc, txid, "", <<>>)),
                        EditedSince(st, obj._id, txid))
         [] OTHER -> UndoQueue(Tail(items), txid, st, q, FALSE)

RECURSIVE RedoQueue(_, _, _, _, _)
\* the _.each over lastUndo.items
RedoQueue(items, txid, st, q, expired) ==
  IF items = <<>> THEN [q |-> q, expired |-> expired]
  ELSE LET obj == Head(items) IN
       CASE obj.action = "remove" /\ obj.doc.exists ->
              RedoQueue(Tail(items), txid, st,
                        Append(q, Write("remove", obj._id, NoDoc, 0, "", <<>>)), expired)
         [] obj.action = "remove" /\ ~obj.doc.exists ->
              RedoQueue(Tail(items), txid, st,
                        Append(q, Write("softdelete", obj._id, NoDoc, txid, "", <<>>)), expired)
         [] obj.action = "update" ->
              IF obj.update.command # ""
              THEN RedoQueue(Tail(items), txid, st,
                             Append(q, Write("update", obj._id, NoDoc, 0, obj.update.command,
                                             _unpackageForUpdate(obj.update.data))), expired)
              ELSE RedoQueue(Tail(items), txid, st, q, expired)
         [] obj.action = "insert" ->
              IF expired THEN RedoQueue(Tail(items), txid, st, q, expired)
              ELSE IF ~st[obj._id].exists
              THEN RedoQueue(Tail(items), txid, st,
                             Append(q, Write("insert", obj._id,
                                             [obj.newDoc EXCEPT !.transaction_id = txid],
                                             0, "", <<>>)), FALSE)
              ELSE RedoQueue(Tail(items), txid, st, q, TRUE)
         [] OTHER -> RedoQueue(Tail(items), txid, st, q, expired)

RECURSIVE ProcessQueueInQueueOrder(_, _, _, _, _, _)
ProcessQueueInQueueOrder(s, q, index, txid, state, undoing) ==
  IF index > Len(q) THEN s
  ELSE LET Called(r) ==
             ProcessQueueInQueueOrder(
               [s EXCEPT !.store = r.store,
                         !.tr = IF r.threw THEN @
                                ELSE _changeItemState(@, txid, index, state),
                         !.out.writes = Append(@, Seen(q[index]))],
               q, index + 1, txid, state, undoing)
       IN Called(ApplyWrite(s.store, q[index]))

RECURSIVE ProcessQueue(_, _, _, _, _, _)
\* "Process queue": call each queued write; a call that throws leaves its item
\* unmarked.  undoing: the item marked for queue position index (from 1) is
\* (queuedItems.length + 1) - index, on redo it is index
ProcessQueue(s, q, index, txid, state, undoing) ==
  IF index > Len(q) THEN s
  ELSE LET at == IF undoing THEN (Len(q) + 1) - index ELSE index
           Called(r) ==
             ProcessQueue([s EXCEPT !.store = r.store,
                                    !.tr = IF r.threw THEN @
                                           ELSE _changeItemState(@, txid, at, state),
                                    !.out.writes = Append(@, Seen(q[index]))],
                          q, index + 1, txid, state, undoing)
       IN Called(ApplyWrite(s.store, q[index]))

_meteorTransactionsUndoPartial(s, txid) ==
  LET Expired(s1, id) == [s1 EXCEPT !.tr[id].expired = TRUE, !.out = Out("expired", id, <<>>)]
      Undone(s1, id) == [s1 EXCEPT !.undone = Stamp(@, id), !.tr[id].state = "undone"]
      Queued(u, id) ==
        IF u.expired
        THEN Expired(ProcessQueue(s, u.q, 1, id, "undone", TRUE), id)
        ELSE Undone(ProcessQueue([s EXCEPT !.out = Out("undone", id, <<>>)],
                                 u.q, 1, id, "undone", TRUE), id)
      Fetched(id) ==
        LET lastTransaction == s.tr[id] IN
        IF ~_checkTransactionFields(lastTransaction.items, id, s.store) THEN Expired(s, id)
        ELSE Queued(UndoQueue(Reverse(lastTransaction.items), id, s.store, <<>>, FALSE), id)
      Selected(found) ==
        IF found = {} THEN [s EXCEPT !.out = Out("none", 0, <<>>)]
        ELSE Fetched(CHOOSE t \in found : TRUE)
  IN Selected(UndoSelected(s, txid))

\* _meteorTransactionsUndo(txid) with a user logged in; txid 0 is null
_meteorTransactionsUndo(s, txid) ==
  LET Expired(id) == [s EXCEPT !.tr[id].expired = TRUE, !.out = Out("expired", id, <<>>)]
      Undone(s1, id) == [s1 EXCEPT !.undone = Stamp(@, id), !.tr[id].state = "undone"]
      \* u: the queue built from the items, or the expiry found on the way
      Queued(u, id) ==
        IF u.expired THEN Expired(id)
        ELSE Undone(ProcessQueue([s EXCEPT !.out = Out("undone", id, <<>>)],
                                 u.q, 1, id, "undone", TRUE), id)
      Fetched(id) ==
        LET lastTransaction == s.tr[id] IN
        IF ~_checkTransactionFields(lastTransaction.items, id, s.store) THEN Expired(id)
        ELSE Queued(UndoQueue(Reverse(lastTransaction.items), id, s.store, <<>>, FALSE), id)
      Selected(found) ==
        IF found = {} THEN [s EXCEPT !.out = Out("none", 0, <<>>)]
        ELSE Fetched(CHOOSE t \in found : TRUE)
  IN Selected(UndoSelected(s, txid))

\* _meteorTransactionsRedo(txid) with a user logged in; txid 0 is null
_meteorTransactionsRedo(s, txid) ==
  LET Expired(id) == [s EXCEPT !.tr[id].expired = TRUE, !.out = Out("expired", id, <<>>)]
      Redone(s1, id) == [s1 EXCEPT !.undone = Unstamp(@, id), !.tr[id].state = "done"]
      Queued(u, id) ==
        IF u.expired THEN Expired(id)
        ELSE Redone(ProcessQueue([s EXCEPT !.out = Out("redone", id, <<>>)],
                                 u.q, 1, id, "done", FALSE), id)
      Fetched(id) ==
        LET lastUndo == s.tr[id] IN
        IF ~_checkTransactionFields(lastUndo.items, id, s.store) THEN Expired(id)
        ELSE Queued(RedoQueue(lastUndo.items, id, s.store, <<>>, FALSE), id)
      Selected(found) ==
        IF found = {} THEN [s EXCEPT !.out = Out("none", 0, <<>>)]
        ELSE Fetched(CHOOSE t \in found : TRUE)
  IN Selected(RedoSelected(s, txid))

(***************************************************************************)
(* Calls the environment makes                                             *)
(***************************************************************************)
\* the document the application inserts
NewDocFields == [k \in Fields |-> IF k = "a" THEN Num(0) ELSE Absent]

\* the modifiers the application sends in update calls
UpdateMenu ==
  { Op("$set", <<Pair("a", Num(1))>>),
    Op("$inc", <<Pair("a", Num(1))>>),
    Op("$pull", <<Pair("b", Obj(1))>>) }

\* the collection before the first call: document 1 exists
InitDocFields == [k \in Fields |-> IF k = "a" THEN Num(0) ELSE Arr(<<1>>)]
InitStore == [d \in DocIds |-> IF d = 1 THEN Doc(InitDocFields, 0, FALSE) ELSE NoDoc]

RECURSIVE SumItems(_, _, _)
SumItems(tr, open, T) ==
  IF T = {} THEN 0
  ELSE LET t == CHOOSE x \in T : TRUE
       IN (IF t = open THEN 0 ELSE Len(tr[t].items)) + SumItems(tr, open, T \ {t})

\* the actions queued so far: those of the open transaction and those recorded
TotalItems == Len(_items) + SumItems(Transactions, _transaction_id, TxIds)

CanQueue(max) ==
  /\ TotalItems < max
  /\ _transaction_id # 0 \/ nextTx <= MaxTx

\* the state after a handler returned s
Becomes(s) ==
  /\ store' = s.store
  /\ Transactions' = s.tr
  /\ _transaction_id' = s._transaction_id
  /\ _items' = s._items
  /\ _autoTransaction' = s._autoTransaction
  /\ _startAttempts' = s._startAttempts
  /\ _rollback' = s._rollback
  /\ _rollbackReason' = s._rollbackReason
  /\ _autoCancel' = s._autoCancel
  /\ lastModified' = s.lastModified
  /\ undone' = s.undone
  /\ nextTx' = s.nextTx
  /\ nextDoc' = s.nextDoc
  /\ _context' = s._context
  /\ UNCHANGED <<calc, denied, userId>>

NoCalc == [phase |-> "idle", doc |-> NoDoc, update |-> NoOp, inverse |-> NoOp,
           after |-> NoDoc, back |-> NoDoc]

Init ==
  /\ store = InitStore
  /\ Transactions = [t \in TxIds |-> NoTx]
  /\ _transaction_id = 0
  /\ _items = <<>>
  /\ _autoTransaction = FALSE
  /\ _startAttempts = 0
  /\ _rollback = FALSE
  /\ _rollbackReason = ""
  /\ _autoCancel = FALSE
  /\ lastModified = <<>>
  /\ undone = <<>>
  /\ nextTx = 1
  /\ nextDoc = 2
  /\ calc = NoCalc
  /\ denied = {}
  /\ _context = NoContext
  /\ userId = 1

Start ==
  /\ IF _transaction_id = 0 THEN nextTx <= MaxTx ELSE _startAttempts < MaxStartAttempts
  /\ Becomes(start(Cur))

QueueInsert(max) ==
  /\ CanQueue(max)
  /\ nextDoc <= MaxDoc
  /\ \E instant \in BOOLEAN : Becomes(insert(Cur, NewDocFields, instant))

QueueUpdate(max) ==
  /\ CanQueue(max)
  /\ \E id \in DocIds, updateData \in UpdateMenu, instant \in BOOLEAN :
       Becomes(update(Cur, id, updateData, instant))

QueueRemove(max) ==
  /\ CanQueue(max)
  /\ \E id \in DocIds, instant \in BOOLEAN, softDelete \in BOOLEAN :
       Becomes(remove(Cur, id, instant, softDelete))

Insert == QueueInsert(MaxTotalItems)

Update == QueueUpdate(MaxTotalItems)

Remove == QueueRemove(MaxTotalItems)

Commit ==
  \E arg \in {"none", "own"} : Becomes(commit(Cur, arg))

Cancel ==
  /\ _transaction_id # 0
  /\ Becomes(cancel(Cur))

\* the callback of _resetAutoCancel's timer: self.rollback()
IdleTimeout ==
  /\ _autoCancel
  /\ \E r \in {rollback(Cur)} :
       Becomes([r EXCEPT !.out.result = "idle-timeout", !.out.txid = _transaction_id])

Undo ==
  \E txid \in TxIds \cup {0} : Becomes(_meteorTransactionsUndo(Cur, txid))

Redo ==
  \E txid \in TxIds \cup {0} : Becomes(_meteorTransactionsRedo(Cur, txid))

\* a second builder (a client's tx) runs start, one queued call and commit
RemoteBuilt(s, kind, id, updateData, softDelete) ==
  LET r0 == start(_cleanReset(s)) IN
  CASE kind = "insert" -> insert(r0, NewDocFields, FALSE)
    [] kind = "update" -> update(r0, id, updateData, FALSE)
    [] OTHER -> remove(r0, id, FALSE, softDelete)

\* the calls a second builder makes before its commit
RemoteMenu ==
  {[kind |-> "insert", id |-> 1, updateData |-> NoOp, softDelete |-> FALSE]}
  \cup {[kind |-> "update", id |-> id, updateData |-> u, softDelete |-> FALSE] :
          id \in DocIds, u \in UpdateMenu}
  \cup {[kind |-> "remove", id |-> id, updateData |-> NoOp, softDelete |-> sd] :
          id \in DocIds, sd \in BOOLEAN}

\* the second builder's commit reaches the executor as the method
\* _meteorTransactionsProcess, where tx is the executor's own builder s
RemoteCall(s, c) ==
  LET \* r: the second builder after its queued call, at its commit
      Committing(r) ==
        _meteorTransactionsProcess([s EXCEPT !.nextTx = r.nextTx, !.nextDoc = r.nextDoc],
                                   r._transaction_id, r._items, r._context)
  IN Committing(RemoteBuilt(s, c.kind, c.id, c.updateData, c.softDelete))

CanRemote(c) ==
  /\ nextTx <= MaxTx
  /\ c.kind = "insert" => nextDoc <= MaxDoc

RemoteCommit ==
  /\ TotalItems < MaxTotalItems
  /\ \E c \in RemoteMenu : CanRemote(c) /\ Becomes(RemoteCall(Cur, c))

\* the transactions the executor boundary can be called with again: those that
\* reached a terminal state
Terminal(txid) ==
  /\ Transactions[txid].exists
  /\ Transactions[txid].state \in {"done", "rolledBack"}

Reprocess ==
  /\ \A d \in DocIds : store[d].f["a"].n < MaxNum
  /\ \E txid \in TxIds :
       /\ Terminal(txid)
       /\ Becomes(_meteorTransactionsProcess(Cur, txid, Transactions[txid].items,
                                             Transactions[txid].context))

Next ==
  \/ Start
  \/ Insert
  \/ Update
  \/ Remove
  \/ Commit
  \/ Cancel
  \/ IdleTimeout
  \/ Undo
  \/ Redo
  \/ RemoteCommit
  \/ Reprocess

Spec == Init /\ [][Next]_vars

(***************************************************************************)
(* The inverse calculator on its own: update() computes the inverse of one *)
(* {command: updateMap} against the document found, stores both packaged,  *)
(* and undo applies the unpackaged inverse                                 *)
(***************************************************************************)
\* prior values of the number field a and of the array field b
CalcValA == {Absent} \cup {Num(n) : n \in 0..MaxVal}
CalcValB == {Absent, Arr(<<>>)} \cup {Arr(<<n>>) : n \in 1..MaxVal}
              \cup {Arr(<<n, m>>) : n, m \in 1..MaxVal}
CalcDocs == {Doc([k \in Fields |-> IF k = "a" THEN va ELSE vb], 0, FALSE) :
               va \in CalcValA, vb \in CalcValB}

\* update maps over one field or both, in either key order
CalcKeys == {<<"a">>, <<"b">>, <<"a", "b">>, <<"b", "a">>}
CalcSetValue(k) == IF k = "a" THEN Num(MaxVal) ELSE Arr(<<MaxVal>>)
CalcUpdates ==
  {Op("$set", [i \in 1..Len(ks) |-> Pair(ks[i], CalcSetValue(ks[i]))]) : ks \in CalcKeys}
  \cup {Op("$unset", [i \in 1..Len(ks) |-> Pair(ks[i], Str0)]) : ks \in CalcKeys}
  \cup {Op("$inc", <<Pair("a", Num(1))>>)}
  \cup {Op(c, <<Pair("b", Obj(n))>>) : c \in {"$addToSet", "$push", "$pull"}, n \in 1..MaxVal}

\* the inverse as update() stores it in the item
StoredInverse(existingDoc, updateData) ==
  _packageForStorage(inverseOperations(updateData.command, existingDoc, updateData.data))

InitInverse ==
  /\ Init!1 /\ Init!2 /\ Init!3 /\ Init!4 /\ Init!5 /\ Init!6 /\ Init!7
  /\ Init!8 /\ Init!9 /\ Init!10 /\ Init!11 /\ Init!12 /\ Init!13 /\ Init!15
  /\ Init!16 /\ Init!17
  /\ \E d \in CalcDocs, u \in CalcUpdates :
       calc = [NoCalc EXCEPT !.phase = "input", !.doc = d, !.update = u]

\* the update is applied, then the stored inverse as the undo applies it
Calculate ==
  /\ calc.phase = "input"
  /\ LET stored == _packageForStorage(calc.update)
         inverse == StoredInverse(calc.doc, calc.update)
         after == UpdateDoc(calc.doc, stored.command, _unpackageForUpdate(stored.data), 0)
         back == UpdateDoc(after, inverse.command, _unpackageForUpdate(inverse.data), 0)
     IN calc' = [calc EXCEPT !.phase = "done", !.inverse = inverse,
                             !.after = after, !.back = back]
  /\ UNCHANGED <<store, Transactions, _transaction_id, _items, _autoTransaction,
                 _startAttempts, _rollback, _rollbackReason, _autoCancel, lastModified,
                 undone, nextTx, nextDoc, denied, _context, userId>>

NextInverse == Calculate

SpecInverse == InitInverse /\ [][NextInverse]_vars

(***************************************************************************)
(* The executor's own builder with explicit and automatic transactions,    *)
(* and undo/redo                                                           *)
(***************************************************************************)
BuilderStart ==
  /\ _transaction_id = 0
  /\ nextTx <= MaxTx
  /\ Becomes(start(Cur))

BuilderInsert == QueueInsert(MaxBuilderItems)

BuilderUpdate == QueueUpdate(MaxBuilderItems)

BuilderRemove == QueueRemove(MaxBuilderItems)

NextBuilder ==
  \/ BuilderStart
  \/ BuilderInsert
  \/ BuilderUpdate
  \/ BuilderRemove
  \/ Commit
  \/ Undo
  \/ Redo

SpecBuilder == Init /\ [][NextBuilder]_vars

\* the $addToSet / $push of a value the array already holds
DocumentedDuplicate(c) ==
  /\ c.update.command \in {"$addToSet", "$push"}
  /\ \E i \in 1..Len(c.update.data) :
       LET old == c.doc.f[c.update.data[i].key]
       IN old.k = "arr" /\ InSeq(old.s, c.update.data[i].value.n)

\* C10: for every prior document, supported command and update map over one
\* or more fields, the computed inverse applied to the updated document gives
\* every mutated field the value it had before, or leaves it absent if it was
\* absent (the documented duplicate-value cases excepted)
C10_InverseRoundTrip ==
  (calc.phase = "done" /\ ~DocumentedDuplicate(calc)) =>
    \A i \in 1..Len(calc.update.data) :
      calc.back.f[calc.update.data[i].key] = calc.doc.f[calc.update.data[i].key]

(***************************************************************************)
(* Calls made in the current state, and what each returns                  *)
(***************************************************************************)
\* commit() / commit(tx._transaction_id) of the open transaction
CommitOutcomes ==
  IF _transaction_id = 0 THEN {} ELSE {commit(Cur, arg) : arg \in {"none", "own"}}

\* one insert / update / remove while no transaction is open: an automatic
\* transaction, committed by the same call
AutoOutcomes ==
  IF _transaction_id # 0 \/ nextTx > MaxTx THEN {}
  ELSE {insert(Cur, NewDocFields, instant) : instant \in {i \in BOOLEAN : nextDoc <= MaxDoc}}
       \cup {update(Cur, id, u, instant) : id \in DocIds, u \in UpdateMenu, instant \in BOOLEAN}
       \cup {remove(Cur, id, instant, sd) : id \in DocIds, instant \in BOOLEAN, sd \in BOOLEAN}

\* one instant insert / update / remove inside the open transaction
InstantOutcomes ==
  IF _transaction_id = 0 \/ _rollback THEN {}
  ELSE {insert(Cur, NewDocFields, TRUE) : x \in {i \in {1} : nextDoc <= MaxDoc}}
       \cup {update(Cur, id, u, TRUE) : id \in DocIds, u \in UpdateMenu}
       \cup {remove(Cur, id, TRUE, sd) : id \in DocIds, sd \in BOOLEAN}

\* the commit of a second builder arriving at the executor
RemoteOutcomes == {RemoteCall(Cur, c) : c \in {x \in RemoteMenu : CanRemote(x)}}

\* what a reader of the collection sees of a document, the transaction_id tag aside
Content(doc) == [exists |-> doc.exists, f |-> doc.f, deleted |-> doc.deleted]
Contents(st) == [d \in DocIds |-> Content(st[d])]

\* the effect of one action on the collection
Effect(st, item, txid) ==
  LET id == item._id IN
  CASE item.action = "insert" ->
         [st EXCEPT ![id] = Doc(item.newDoc.f, txid, FALSE)]
    [] item.action = "update" /\ st[id].exists ->
         [st EXCEPT ![id].f = ApplyData(@, item.update.command,
                                        _unpackageForUpdate(item.update.data)),
                    ![id].transaction_id = txid]
    [] item.action = "remove" /\ st[id].exists /\ item.hardDelete ->
         [st EXCEPT ![id] = NoDoc]
    [] item.action = "remove" /\ st[id].exists /\ ~item.hardDelete ->
         [st EXCEPT ![id].deleted = TRUE, ![id].transaction_id = txid]
    [] OTHER -> st

RECURSIVE Effects(_, _, _, _)
\* the effects of the items in their order; withInstant: those of the instant
\* items too
Effects(st, items, txid, withInstant) ==
  IF items = <<>> THEN st
  ELSE Effects(IF withInstant \/ ~Head(items).instant THEN Effect(st, Head(items), txid) ELSE st,
               Tail(items), txid, withInstant)

\* the record of txid is done and holds the given actions, every one done
Committed(s, txid, items) ==
  /\ s.tr[txid].exists
  /\ s.tr[txid].state = "done"
  /\ Len(s.tr[txid].items) = Len(items)
  /\ \A i \in 1..Len(items) :
       /\ s.tr[txid].items[i].state = "done"
       /\ s.tr[txid].items[i].action = items[i].action
       /\ s.tr[txid].items[i]._id = items[i]._id

\* C1: after a commit in which every phase-2 action succeeds, the effect of
\* every action of the transaction is visible in the store (an instant action's
\* from its call on, a queued action's from the commit on), the record has
\* state done and every item of the record has state done
C1_CommitSuccess ==
  /\ \A s1 \in CommitOutcomes :
       s1.out.result = "done" =>
         /\ Committed(s1, _transaction_id, _items)
         /\ Contents(s1.store) = Contents(Effects(store, _items, _transaction_id, FALSE))
  /\ \A s1 \in AutoOutcomes \cup RemoteOutcomes :
       s1.out.result = "done" =>
         /\ Committed(s1, s1.out.txid, s1.tr[s1.out.txid].items)
         /\ Len(s1.tr[s1.out.txid].items) = 1
         /\ Contents(s1.store) =
              Contents(Effects(store, s1.tr[s1.out.txid].items, s1.out.txid, TRUE))
  /\ \A s1 \in InstantOutcomes :
       ~s1._rollback =>
         /\ Len(s1._items) = Len(_items) + 1
         /\ s1._items[Len(s1._items)].instant
         /\ Contents(s1.store) =
              Contents(Effect(store, s1._items[Len(s1._items)], _transaction_id))

\* a transaction [instant insert X, queued update X] has been committed
C1_Witness ==
  \E t \in TxIds :
    /\ Transactions[t].state = "done"
    /\ _transaction_id = 0
    /\ Len(Transactions[t].items) = 2
    /\ LET i1 == Transactions[t].items[1]
           i2 == Transactions[t].items[2]
       IN /\ i1.action = "insert" /\ i1.instant /\ i1.state = "done"
          /\ i2.action = "update" /\ ~i2.instant /\ i2.state = "done"
          /\ i2._id = i1._id
          /\ i2.update.command = "$set"
          /\ store[i1._id].exists
          /\ store[i1._id].f["a"] = Num(1)

\* the documents an instant action of the open transaction acted on
InstantDocs == {_items[i]._id : i \in {j \in 1..Len(_items) : _items[j].instant}}

\* C2: after a commit in which some phase-2 action fails, no effect of a
\* non-instant action of the transaction remains visible (a document only
\* queued actions acted on reads as before the commit), and the documents the
\* transaction's instant inserts created are gone
C2_FailedCommitLeavesNoEffect ==
  \A s1 \in CommitOutcomes :
    s1.out.result = "failed" =>
      /\ \A d \in DocIds \ InstantDocs : Content(s1.store[d]) = Content(store[d])
      /\ \A i \in 1..Len(_items) :
           (_items[i].instant /\ _items[i].action = "insert") =>
             ~s1.store[_items[i]._id].exists

\* C3: when a phase-2 action fails during commit, the record ends rolledBack
\* (or is removed when removeRolledBackTransactions is set), whether the commit
\* was issued on the executor side or arrived from another builder
C3_FailedCommitRecordState ==
  \A s1 \in CommitOutcomes \cup AutoOutcomes \cup RemoteOutcomes :
    s1.out.result = "failed" =>
      IF removeRolledBackTransactions
      THEN ~s1.tr[s1.out.txid].exists
      ELSE s1.tr[s1.out.txid].exists /\ s1.tr[s1.out.txid].state = "rolledBack"

\* the documents the actions of transaction txid act on
DocsOf(txid) == {Transactions[txid].items[i]._id : i \in 1..Len(Transactions[txid].items)}
                  \cap DocIds

\* C4: an undo or a redo of T never changes a document that a different
\* transaction has modified since T last wrote it (the document carries the
\* other transaction's id): the call is cancelled and T is flagged expired
C4_UndoRedoKeepsLaterEdits ==
  \A t \in TxIds :
    LET later == {d \in DocsOf(t) : EditedSince(store, d, t)}
        calls == (IF UndoSelected(Cur, t) = {t} THEN {_meteorTransactionsUndo(Cur, t)} ELSE {})
                 \cup (IF RedoSelected(Cur, t) = {t} THEN {_meteorTransactionsRedo(Cur, t)}
                       ELSE {})
    IN \A s1 \in calls :
         later # {} => /\ \A d \in later : s1.store[d] = store[d]
                       /\ s1.tr[t].expired

\* transaction t holds an action of this kind on document d
Holds(t, action, d) ==
  /\ Transactions[t].exists
  /\ \E i \in 1..Len(Transactions[t].items) :
       /\ Transactions[t].items[i].action = action
       /\ Transactions[t].items[i]._id = d

\* T1 is committed and inserted X, T2 updated X after that
InsertedThenUpdated(t1, t2, X) ==
  /\ t1 # t2
  /\ Holds(t1, "insert", X)
  /\ Transactions[t1].state = "done"
  /\ Holds(t2, "update", X)
  /\ store[X].exists
  /\ store[X].transaction_id = t2

\* C5: if T1 inserted X and a later T2 updated X, undo of T1 sets expired on
\* T1, leaves T1's state done and leaves every document unchanged
C5_UndoOfInsertExpires ==
  \A t1 \in TxIds, t2 \in TxIds, X \in DocIds :
    InsertedThenUpdated(t1, t2, X) =>
      LET s1 == _meteorTransactionsUndo(Cur, t1)
      IN /\ s1.tr[t1].expired
         /\ s1.tr[t1].state = "done"
         /\ s1.store = store

\* the undo of T1 has been called after T2 updated the document T1 inserted
C5_Witness ==
  \E t1 \in TxIds, t2 \in TxIds, X \in DocIds :
    /\ InsertedThenUpdated(t1, t2, X)
    /\ Transactions[t1].expired
    /\ ~InSeq(undone, t1)

\* what an observer sees of the inverse and of the forward write of an item
InverseSeen(item) ==
  [w |-> CASE item.action = "insert" -> "remove"
           [] item.action = "update" -> "update"
           [] item.action = "remove" /\ item.doc.exists -> "insert"
           [] OTHER -> "undelete",
   id |-> item._id]
ForwardSeen(item) ==
  [w |-> CASE item.action = "insert" -> "insert"
           [] item.action = "update" -> "update"
           [] item.action = "remove" /\ item.doc.exists -> "remove"
           [] OTHER -> "softdelete",
   id |-> item._id]
Acts(item) == item.action \in {"insert", "update", "remove"}

\* C6: undo applies the inverses of the items in the reverse of their recorded
\* order and redo applies the forward actions in their recorded order
C6_UndoReverseRedoForward ==
  \A t \in TxIds :
    LET items == Transactions[t].items
        n == Len(items)
        u == _meteorTransactionsUndo(Cur, t)
        r == _meteorTransactionsRedo(Cur, t)
    IN (\A i \in 1..n : Acts(items[i])) =>
         /\ u.out.result = "undone" =>
              u.out.writes = [j \in 1..n |-> InverseSeen(items[n + 1 - j])]
         /\ r.out.result = "redone" =>
              r.out.writes = [j \in 1..n |-> ForwardSeen(items[j])]

\* a transaction [insert A, update A] has been undone
C6_Witness ==
  \E t \in TxIds :
    /\ Transactions[t].state = "undone"
    /\ Len(Transactions[t].items) = 2
    /\ Transactions[t].items[1].action = "insert"
    /\ Transactions[t].items[2].action = "update"
    /\ Transactions[t].items[2]._id = Transactions[t].items[1]._id
    /\ Transactions[t].items[1].state = "undone"
    /\ Transactions[t].items[2].state = "undone"
    /\ ~store[Transactions[t].items[1]._id].exists

\* C7: for a transaction just committed, undo brings every document back to
\* its content before the transaction (removed documents exist again without
\* a tombstone), and a following redo brings back the content after the commit
C7_UndoRestoresRedoReapplies ==
  \A s1 \in AutoOutcomes \cup {c \in CommitOutcomes : InstantDocs = {}} :
    s1.out.result = "done" =>
      LET s2 == _meteorTransactionsUndo(s1, s1.out.txid)
          s3 == _meteorTransactionsRedo(s2, s1.out.txid)
      IN /\ s2.out.result = "undone"
         /\ Contents(s2.store) = Contents(store)
         /\ s3.out.result = "redone"
         /\ Contents(s3.store) = Contents(s1.store)

\* what a call may change outside the builder
Persisted(s) == <<s.store, s.tr, s.lastModified, s.undone>>

\* C8: undoing the same transaction twice in a row, by its id, is a no-op the
\* second time: the second call finds no eligible transaction and changes no
\* document and no record; the same for redoing twice
C8_SecondUndoRedoIsNoOp ==
  \A t \in TxIds :
    /\ LET s1 == _meteorTransactionsUndo(Cur, t)
           s2 == _meteorTransactionsUndo(s1, t)
       IN s1.out.result \in {"undone", "expired"} =>
            s2.out.result = "none" /\ Persisted(s2) = Persisted(s1)
    /\ LET s1 == _meteorTransactionsRedo(Cur, t)
           s2 == _meteorTransactionsRedo(s1, t)
       IN s1.out.result \in {"redone", "expired"} =>
            s2.out.result = "none" /\ Persisted(s2) = Persisted(s1)

\* a transaction that held a hard remove has been undone: its document is back
C8_Witness ==
  \E t \in TxIds :
    /\ Transactions[t].state = "undone"
    /\ InSeq(undone, t)
    /\ \E i \in 1..Len(Transactions[t].items) :
         /\ Transactions[t].items[i].action = "remove"
         /\ Transactions[t].items[i].doc.exists
         /\ Transactions[t].items[i].state = "undone"
         /\ store[Transactions[t].items[i]._id].exists

\* C9: the process operation called again with the id and the items of a
\* transaction that is done or rolledBack applies no action to the store and
\* leaves the record as it was
C9_ProcessIdempotent ==
  \A t \in TxIds :
    Terminal(t) =>
      LET s1 == _meteorTransactionsProcess(Cur, t, Transactions[t].items,
                                           Transactions[t].context)
      IN s1.store = store /\ s1.tr[t] = Transactions[t]

(***************************************************************************)
(* The default inverses                                                    *)
(***************************************************************************)
\* the inverse the documentation gives for {command: {k: v}} on a document
\* whose field k holds prior
DocumentedInverse(command, k, v, prior) ==
  CASE command \in {"$addToSet", "$push"} -> Op("$pull", <<Pair(k, v)>>)
    [] command = "$pull" -> Op("$addToSet", <<Pair(k, v)>>)
    [] OTHER -> IF prior.k # "absent" THEN Op("$set", <<Pair(k, prior)>>)
                ELSE Op("$unset", <<Pair(k, Str0)>>)

\* C11: for an update of one key k, the inverse stored on the item is
\* $pull(k=v) for $addToSet(k=v) and $push(k=v), $addToSet(k=v) for
\* $pull(k=v), and for $set, $unset and $inc it is $set(k=prior value) when k
\* exists in the prior document and $unset(k) otherwise, never $inc(k=-d)
C11_DefaultInverse ==
  (calc.phase = "done" /\ Len(calc.update.data) = 1) =>
    LET k == calc.update.data[1].key
        v == calc.update.data[1].value
    IN /\ calc.inverse =
            _packageForStorage(DocumentedInverse(calc.update.command, k, v, calc.doc.f[k]))
       /\ calc.inverse.command # "$inc"

\* the inverse of an $inc of a field that held a number has been computed
C11_Witness ==
  /\ calc.phase = "done"
  /\ calc.update.command = "$inc"
  /\ calc.doc.f["a"].k = "num"
  /\ calc.inverse = Op("$set", <<Pair("a", calc.doc.f["a"])>>)

\* a modifier whose command has no entry in tx.inverseOperations
UnsupportedUpdate == Op("$mul", <<Pair("a", Num(2))>>)

\* C12: an update with a command outside the supported set and without a
\* caller-provided inverse is rejected: the call queues no item, records
\* nothing and leaves the store as it was
C12_UnsupportedCommandRejected ==
  \A id \in DocIds, instant \in BOOLEAN :
    (~_rollback /\ (_transaction_id # 0 \/ nextTx <= MaxTx)) =>
      LET s1 == update(Cur, id, UnsupportedUpdate, instant)
      IN /\ s1._items = _items
         /\ s1.tr = Transactions
         /\ s1.store = store

(***************************************************************************)
(* Automatic transactions                                                  *)
(***************************************************************************)
\* the insert / update / remove calls of the application, with their options
BuilderMenu ==
  {[kind |-> "insert", id |-> 0, updateData |-> NoOp, instant |-> i, softDelete |-> FALSE] :
     i \in BOOLEAN}
  \cup {[kind |-> "update", id |-> id, updateData |-> u, instant |-> i, softDelete |-> FALSE] :
          id \in DocIds, u \in UpdateMenu, i \in BOOLEAN}
  \cup {[kind |-> "remove", id |-> id, updateData |-> NoOp, instant |-> i, softDelete |-> sd] :
          id \in DocIds, i \in BOOLEAN, sd \in BOOLEAN}

BuilderCall(s, c) ==
  CASE c.kind = "insert" -> insert(s, NewDocFields, c.instant)
    [] c.kind = "update" -> update(s, c.id, c.updateData, c.instant)
    [] OTHER -> remove(s, c.id, c.instant, c.softDelete)

\* a call the bounds leave room for, while no transaction is open
CanCallAlone(c) ==
  /\ _transaction_id = 0
  /\ nextTx <= MaxTx
  /\ c.kind = "insert" => nextDoc <= MaxDoc

\* what a record says of its transaction: its state and, per item, the action,
\* the document and the item's state
Recorded(tr) ==
  [t \in TxIds |->
     [exists |-> tr[t].exists, state |-> tr[t].state,
      items |-> [i \in 1..Len(tr[t].items) |->
                   [action |-> tr[t].items[i].action, _id |-> tr[t].items[i]._id,
                    state |-> tr[t].items[i].state]]]]

\* C13: one insert, update or remove call made while no transaction is open
\* returns with no transaction open in the builder, and leaves the store and
\* the record as start, the same call and commit leave them
C13_AutoTransaction ==
  \A c \in BuilderMenu :
    CanCallAlone(c) =>
      LET auto == BuilderCall(Cur, c)
          explicit == commit(BuilderCall(start(Cur), c), "none")
      IN /\ auto._transaction_id = 0
         /\ auto._items = <<>>
         /\ ~auto._autoTransaction
         /\ Contents(auto.store) = Contents(explicit.store)
         /\ Recorded(auto.tr) = Recorded(explicit.tr)

(***************************************************************************)
(* The builder under a permission predicate that denies some actions       *)
(***************************************************************************)
Kinds == {"insert", "update", "remove"}

\* the predicates the application may install: each denies some kinds of action
DeniedSets == (SUBSET Kinds) \ {{}}

InitPermission ==
  /\ Init!1 /\ Init!2 /\ Init!3 /\ Init!4 /\ Init!5 /\ Init!6 /\ Init!7
  /\ Init!8 /\ Init!9 /\ Init!10 /\ Init!11 /\ Init!12 /\ Init!13 /\ Init!14
  /\ Init!16 /\ Init!17
  /\ denied \in DeniedSets

NextPermission ==
  \/ Start
  \/ Insert
  \/ Update
  \/ Remove
  \/ Commit
  \/ Cancel

SpecPermission == InitPermission /\ [][NextPermission]_vars

\* C14: a denied insert / update / remove sets the rollback flag with reason
\* permission-denied and changes neither the store nor the item list; while
\* the flag is set every insert / update / remove is refused the same way;
\* and the next commit ends the refusal, whatever had been queued and whether
\* or not a transaction was open
C14_DenialRefusesUntilCommit ==
  /\ \A c \in BuilderMenu :
       (~_rollback /\ c.kind \in denied) =>
         LET s1 == BuilderCall(Cur, c)
         IN /\ s1._rollback
            /\ s1._rollbackReason = "permission-denied"
            /\ s1.store = store
            /\ s1._items = _items
  /\ (_rollback /\ _rollbackReason = "permission-denied") =>
       /\ \A c \in BuilderMenu :
            LET s1 == BuilderCall(Cur, c) IN s1.store = store /\ s1._items = _items
       /\ _startAttempts = 0 => \A arg \in {"none", "own"} : ~commit(Cur, arg)._rollback

\* an explicit transaction is open, no nested start is pending
OpenAlone ==
  /\ _transaction_id # 0
  /\ ~_autoTransaction
  /\ _startAttempts = 0

\* C15: a commit made while the rollback flag is set (by a denial, by
\* cancel() or by an instant action's error) hands the rollback reason to the
\* callback as the error, applies no queued action, and leaves every document
\* an instant action of the transaction acted on as it was before that action
C15_CommitUnderRollbackFlag ==
  /\ (OpenAlone /\ _rollback) =>
       \A arg \in {"none", "own"} :
         LET s1 == commit(Cur, arg)
         IN /\ s1.out.result = _rollbackReason
            /\ \A d \in DocIds \ InstantDocs : Content(s1.store[d]) = Content(store[d])
  /\ (OpenAlone /\ ~_rollback) =>
       \A c \in BuilderMenu :
         (c.kind = "insert" => nextDoc <= MaxDoc) =>
           LET s1 == commit(cancel(BuilderCall(Cur, c)), "none")
           IN /\ s1.out.result = "transaction-cancelled"
              /\ \A d \in DocIds \ InstantDocs : Content(s1.store[d]) = Content(store[d])

\* the builder holds no transaction: what _cleanReset leaves
Clean(s) ==
  /\ s._transaction_id = 0
  /\ s._items = <<>>
  /\ ~s._rollback
  /\ s._startAttempts = 0

\* C16: whatever the outcome of a commit of the open transaction (success,
\* empty item list, rollback flag set, failure in the executor), the builder is
\* clean when the commit has returned
C16_CommitLeavesBuilderClean ==
  (_transaction_id # 0 /\ _startAttempts = 0) =>
    \A arg \in {"none", "own"} : Clean(commit(Cur, arg))

C18_StartWhileOpen ==
  _transaction_id # 0 =>
    LET s1 == start(Cur)
    IN /\ s1.out.result = "false"
       /\ s1._startAttempts = _startAttempts + 1
       /\ s1 = [Cur EXCEPT !._startAttempts = s1._startAttempts,
                            !._autoCancel = s1._autoCancel, !.out = s1.out]

\* start has been called on an open transaction that holds an action
C18_Witness ==
  /\ _transaction_id # 0
  /\ _startAttempts = 1
  /\ _items # <<>>

\* C19: while _startAttempts counts k > 0 rejected starts, a commit that does
\* not name the open transaction's id fails with multiple-transactions-open,
\* takes one off the counter and writes nothing; at k = 0 the commit processes
\* everything queued since the outer start as one transaction; a commit that
\* names the open transaction's id does so whatever the counter
C19_NestedCommits ==
  _transaction_id # 0 =>
    /\ _startAttempts > 0 =>
         \A arg \in {"none", "other"} :
           commit(Cur, arg) =
             [Cur EXCEPT !._startAttempts = _startAttempts - 1,
                         !.out = Out("multiple-transactions-open", _transaction_id, <<>>)]
    /\ \A arg \in {a \in {"none", "own"} : a = "own" \/ _startAttempts = 0} :
         LET s1 == commit(Cur, arg)
         IN /\ s1.out.result # "multiple-transactions-open"
            /\ (_items # <<>> /\ ~_rollback) =>
                 /\ s1.out.result \in {"done", "failed"}
                 /\ s1.tr[_transaction_id].exists
                 /\ Len(s1.tr[_transaction_id].items) = Len(_items)
                 /\ s1.out.result = "done" => Committed(s1, _transaction_id, _items)

\* a start has been rejected and the open transaction holds two queued actions
C19_Witness ==
  /\ _transaction_id # 0
  /\ _startAttempts = MaxStartAttempts
  /\ ~_rollback
  /\ Len(_items) = 2
  /\ \A i \in 1..2 : ~_items[i].instant

(***************************************************************************)
(* Restart of the server process and the self repair at startup            *)
(***************************************************************************)
\* the process ended and started again: tx is constructed anew (and no timer
\* is armed), the collections are what the database holds
Restarted(s) == [_cleanReset(s) EXCEPT !.out = NoOut]

\* the Meteor.startup handler: both cases of the switch on tx.selfRepairMode
\* are empty
startup(mode, s) ==
  CASE mode = "complete" -> s
    [] mode = "rollback" -> s
    [] OTHER -> s

\* the handler under the configured tx.selfRepairMode
selfRepair(s) == startup(selfRepairMode, s)

Restart == Becomes(selfRepair(Restarted(Cur)))

NextRecovery ==
  \/ Start
  \/ Insert
  \/ Update
  \/ Remove
  \/ Commit
  \/ Restart

SpecRecovery == Init /\ [][NextRecovery]_vars

\* C20: with tx.selfRepairMode 'complete', once the startup recovery has run
\* after the process stopped, no persisted transaction is in state pending
C20_RecoveryCompletesPending ==
  LET s1 == selfRepair(Restarted(Cur))
  IN \A t \in TxIds : s1.tr[t].exists => s1.tr[t].state # "pending"

\* C21: with tx.selfRepairMode 'rollback', once the startup recovery has run
\* after the process stopped, every persisted transaction that was pending is
\* in state rolledBack
C21_RecoveryRollsBackPending ==
  LET s0 == Restarted(Cur)
      s1 == startup("rollback", s0)
  IN \A t \in TxIds :
       (s0.tr[t].exists /\ s0.tr[t].state = "pending")
         => s1.tr[t].state = "rolledBack"

\* the transactions an undo without an id may act on, and a redo without an id
UndoCandidates(s) ==
  {t \in TxIds : /\ s.tr[t].exists /\ s.tr[t].state = "done"
                 /\ ~InSeq(s.undone, t) /\ ~s.tr[t].expired}

RedoCandidates(s) ==
  {t \in TxIds : s.tr[t].exists /\ InSeq(s.undone, t) /\ ~s.tr[t].expired}

\* r is the outcome of an undo or redo without an id in s: it acted on the
\* candidate latest in order and left every other transaction alone, or there
\* was no candidate and nothing changed
ActedOnLatest(s, r, cand, order) ==
  IF cand = {}
  THEN r.out.result = "none" /\ Persisted(r) = Persisted(s)
  ELSE /\ r.out.result # "none"
       /\ r.out.txid \in cand
       /\ \A u \in cand : Rank(order, u) <= Rank(order, r.out.txid)
       /\ \A u \in TxIds \ {r.out.txid} : r.tr[u] = s.tr[u]

\* C22: undo without an id acts on the done, not undone, not expired
\* transaction with the greatest lastModified, redo without an id on the
\* undone, not expired transaction with the greatest undone timestamp, and
\* with no such transaction nothing changes; a second undo acts on a
\* transaction committed earlier than the first, a second redo on one undone
\* earlier than the first, and a redo after an undo acts on the transaction
\* just undone
C22_UndoRedoSelection ==
  LET u1 == _meteorTransactionsUndo(Cur, 0)
      u2 == _meteorTransactionsUndo(u1, 0)
      r1 == _meteorTransactionsRedo(Cur, 0)
      r2 == _meteorTransactionsRedo(r1, 0)
      ur == _meteorTransactionsRedo(u1, 0)
  IN /\ ActedOnLatest(Cur, u1, UndoCandidates(Cur), lastModified)
     /\ ActedOnLatest(Cur, r1, RedoCandidates(Cur), undone)
     /\ (u1.out.result # "none" /\ u2.out.result # "none")
          => Rank(lastModified, u2.out.txid) < Rank(lastModified, u1.out.txid)
     /\ (r1.out.result # "none" /\ r2.out.result # "none")
          => Rank(undone, r2.out.txid) < Rank(undone, r1.out.txid)
     /\ u1.out.result = "undone"
          => ur.out.result # "none" /\ ur.out.txid = u1.out.txid

\* two committed transactions are both undone and neither is expired: the
\* redo has a choice to make
C22_Witness ==
  /\ Cardinality(RedoCandidates(Cur)) = 2
  /\ _meteorTransactionsRedo(Cur, 0).out.result = "redone"
  /\ _autoTransaction = FALSE

RECURSIVE Threw(_, _, _)
\* the k-th call of the queue q throws when the calls before it have been made
\* on the collection st
Threw(st, q, k) ==
  IF k = 1 THEN ApplyWrite(st, q[1]).threw
  ELSE Threw(ApplyWrite(st, q[1]).store, Tail(q), k - 1)

\* C23: a successful undo leaves the transaction undone with its undone
\* timestamp set, a successful redo leaves it done with the timestamp cleared;
\* every item has one queued call, which is the inverse (on redo the forward
\* action) of that very item, and the item is marked undone (done) exactly
\* when that call did not throw, every other item keeping its state
C23_UndoRedoMarksItems ==
  \A t \in TxIds :
    LET items == Transactions[t].items
        n == Len(items)
        u == _meteorTransactionsUndo(Cur, t)
        r == _meteorTransactionsRedo(Cur, t)
        uq == UndoQueue(Reverse(items), t, store, <<>>, FALSE).q
        rq == RedoQueue(items, t, store, <<>>, FALSE).q
    IN /\ u.out.result = "undone" =>
            /\ u.tr[t].state = "undone" /\ InSeq(u.undone, t)
            /\ Len(uq) = n /\ Len(u.tr[t].items) = n
            /\ \A j \in 1..n :
                 /\ Seen(uq[j]) = InverseSeen(items[n + 1 - j])
                 /\ u.tr[t].items[n + 1 - j] =
                      [items[n + 1 - j] EXCEPT
                         !.state = IF Threw(store, uq, j) THEN @ ELSE "undone"]
       /\ r.out.result = "redone" =>
            /\ r.tr[t].state = "done" /\ ~InSeq(r.undone, t)
            /\ Len(rq) = n /\ Len(r.tr[t].items) = n
            /\ \A j \in 1..n :
                 /\ Seen(rq[j]) = ForwardSeen(items[j])
                 /\ r.tr[t].items[j] =
                      [items[j] EXCEPT
                         !.state = IF Threw(store, rq, j) THEN @ ELSE "done"]

\* a transaction of two hard deletes of one document has been undone: the
\* second insert of the snapshot threw, and only the item of the first is
\* marked
C23_Witness ==
  \E t \in TxIds :
    /\ Transactions[t].state = "undone"
    /\ Len(Transactions[t].items) = 2
    /\ Transactions[t].items[1].state = "done"
    /\ Transactions[t].items[2].state = "undone"
    /\ Transactions[t].items[2].action = "remove"

(***************************************************************************)
(* Undo and redo after the permission predicate changed its answer, with   *)
(* actions made under opt.overridePermissionCheck                          *)
(***************************************************************************)
\* s1 is what a queued call made s; under opt.overridePermissionCheck
\* _createItem sets noCheck on the items the call pushed
overridePermissionCheck(s, s1) ==
  [s1 EXCEPT !._items = [i \in 1..Len(s1._items) |->
                           IF i > Len(s._items)
                           THEN [s1._items[i] EXCEPT !.noCheck = TRUE]
                           ELSE s1._items[i]]]

\* a queued call with opt.overridePermissionCheck in an open transaction, made
\* while the predicate grants the action
Overridden ==
  /\ _transaction_id # 0
  /\ ~_autoTransaction
  /\ CanQueue(MaxTotalItems)
  /\ \E c \in BuilderMenu :
       /\ ~c.instant
       /\ c.kind \notin denied
       /\ c.kind = "insert" => nextDoc <= MaxDoc
       /\ Becomes(overridePermissionCheck(Cur, BuilderCall(Cur, c)))

\* the application's predicate starts to deny one kind of action
Revoke ==
  /\ denied = {}
  /\ \E k \in Kinds : denied' = {k}
  /\ UNCHANGED <<store, Transactions, _transaction_id, _items, _autoTransaction,
                 _startAttempts, _rollback, _rollbackReason, _autoCancel,
                 lastModified, undone, nextTx, nextDoc, calc, _context, userId>>

NextOverride ==
  \/ Start
  \/ Insert
  \/ Update
  \/ Remove
  \/ Overridden
  \/ Commit
  \/ Undo
  \/ Redo
  \/ Revoke

SpecOverride == Init /\ [][NextOverride]_vars

\* C24: when undo or redo has found a transaction with items, and the
\* predicate denies an item that is not flagged noCheck, no call is made on
\* the collection, the store is unchanged and the transaction is flagged
\* expired; when the predicate denies only items flagged noCheck, the
\* transaction expires only for what the collection holds, as it would under
\* a predicate that grants everything
C24_PermissionOnUndoRedo ==
  \A t \in TxIds :
    LET items == Transactions[t].items
        refused == \E i \in 1..Len(items) :
                     ~items[i].noCheck /\ items[i].action \in denied
        u == _meteorTransactionsUndo(Cur, t)
        r == _meteorTransactionsRedo(Cur, t)
        uq == UndoQueue(Reverse(items), t, store, <<>>, FALSE)
        rq == RedoQueue(items, t, store, <<>>, FALSE)
    IN /\ (UndoSelected(Cur, t) # {} /\ items # <<>>) =>
            IF refused
            THEN /\ u.out = Out("expired", t, <<>>)
                 /\ u.store = store
                 /\ u.tr[t].expired
            ELSE u.out.result = "expired" <=> uq.expired
       /\ (RedoSelected(Cur, t) # {} /\ items # <<>>) =>
            IF refused
            THEN /\ r.out = Out("expired", t, <<>>)
                 /\ r.store = store
                 /\ r.tr[t].expired
            ELSE r.out.result = "expired" <=> rq.expired

\* the predicate now denies updates: the undo of one committed update was
\* refused and expired it, the undo of another, made under
\* opt.overridePermissionCheck, went through
C24_Witness ==
  \E t1 \in TxIds, t2 \in TxIds :
    /\ denied = {"update"}
    /\ Transactions[t1].state = "done" /\ Transactions[t1].expired
    /\ Transactions[t1].items[1].action = "update"
    /\ ~Transactions[t1].items[1].noCheck
    /\ Transactions[t2].state = "undone" /\ ~Transactions[t2].expired
    /\ Transactions[t2].items[1].action = "update"
    /\ Transactions[t2].items[1].noCheck

\* C25: after a commit that succeeded, the context of the persisted record is
\* the context the builder holds at the commit, which _setContext made the
\* last-write-wins merge of the contexts of all the actions of the transaction
\* in queue order
C25_CommittedContext ==
  \A s1 \in CommitOutcomes :
    s1.out.result = "done" => s1.tr[s1.out.txid].context = _context

(***************************************************************************)
(* The idle timer on the server: Meteor.setTimeout fires its callback      *)
(* unless the timer is cleared first                                       *)
(***************************************************************************)
NextIdle ==
  \/ Start
  \/ Insert
  \/ Remove
  \/ Commit
  \/ IdleTimeout

SpecIdle == Init /\ [][NextIdle]_vars /\ WF_vars(IdleTimeout)

\* while a transaction is open its timer is armed (start and every push arm
\* it, only _cleanReset clears it); and whenever the timer is armed, its
\* callback reverts the instant items and only those, leaves the record of
\* the open transaction rolledBack and the builder reset, and changes no
\* record that is done
TimerSafe ==
  /\ _transaction_id # 0 => _autoCancel
  /\ _autoCancel =>
       LET r == rollback(Cur)
           inst == {i \in 1..Len(_items) : _items[i].instant}
       IN /\ Clean(r) /\ ~r._autoCancel
          /\ Len(r.out.writes) = Cardinality(inst)
          /\ \A i \in inst : \E j \in 1..Len(r.out.writes) :
                r.out.writes[j] = InverseSeen(_items[i])
          /\ \A t \in TxIds :
                IF t = _transaction_id
                THEN Transactions[t].exists => r.tr[t].state = "rolledBack"
                ELSE r.tr[t] = Transactions[t]
          /\ \A t \in TxIds : Transactions[t].state = "done" => r.tr[t] = Transactions[t]
          /\ _transaction_id = 0 => Persisted(r) = Persisted(Cur)

ChangedAreTagged(s1, txid) ==
  \A d \in DocIds :
    (s1.store[d] # store[d] /\ s1.store[d].exists) => s1.store[d].transaction_id = txid

\* C27: a commit that succeeds leaves the transaction's id on every document
\* it changed and on every document a queued insert, update or soft delete
\* names; an instant insert, update or soft delete leaves the id of the open
\* transaction on the document it changed; and a document that carries the id
\* of the open transaction keeps it through the builder's further instant
\* actions and its successful commit
C27_TaggedByTransaction ==
  /\ \A s1 \in CommitOutcomes \cup AutoOutcomes :
       s1.out.result = "done" =>
         /\ ChangedAreTagged(s1, s1.out.txid)
         /\ \A i \in 1..Len(s1.tr[s1.out.txid].items) :
              LET item == s1.tr[s1.out.txid].items[i] IN
              (~item.instant /\ item._id \in DocIds /\ s1.store[item._id].exists)
                => s1.store[item._id].transaction_id = s1.out.txid
  /\ \A s1 \in InstantOutcomes : ChangedAreTagged(s1, _transaction_id)
  /\ \A d \in DocIds :
       (_transaction_id # 0 /\ store[d].exists /\ store[d].transaction_id = _transaction_id)
         => \A s1 \in InstantOutcomes \cup {c \in CommitOutcomes : c.out.result = "done"} :
              s1.store[d].exists => s1.store[d].transaction_id = _transaction_id

\* a transaction of an instant update of one document and a queued insert of
\* another has been committed, and both documents carry its id
C27_Witness ==
  \E t \in TxIds :
    /\ Transactions[t].state = "done"
    /\ Len(Transactions[t].items) = 2
    /\ Transactions[t].items[1].action = "update" /\ Transactions[t].items[1].instant
    /\ Transactions[t].items[2].action = "insert" /\ ~Transactions[t].items[2].instant
    /\ store[Transactions[t].items[1]._id].transaction_id = t
    /\ store[Transactions[t].items[2]._id].transaction_id = t

\* C28: rollback calls the inverses of the actions already applied (the
\* instant items of the builder) in the reverse of the order in which the
\* actions were applied
C28_RollbackInReverse ==
  LET IsInstant(o) == o.instant
      applied == SelectSeq(_items, IsInstant)
      n == Len(applied)
      r == rollback(Cur)
  IN _transaction_id # 0 =>
       r.out.writes = [j \in 1..n |-> InverseSeen(applied[n + 1 - j])]

\* C29: after a commit that succeeded, the record holds, for every queued
\* hard delete of a document that existed at the commit, the document as it
\* was then, whether or not the record existed before the commit
C29_HardDeleteSnapshot ==
  \A s1 \in CommitOutcomes :
    s1.out.result = "done" =>
      \A i \in 1..Len(_items) :
        (/\ _items[i].action = "remove" /\ _items[i].hardDelete /\ ~_items[i].instant
         /\ store[_items[i]._id].exists)
          => s1.tr[s1.out.txid].items[i].doc = store[_items[i]._id]

RECURSIVE QueuedUpdates(_, _, _)
\* the builder s after the queued updates us of document d, in order
QueuedUpdates(s, d, us) ==
  IF us = <<>> THEN s ELSE QueuedUpdates(update(s, d, Head(us), FALSE), d, Tail(us))

\* the field values of document d after start, the queued updates us of d,
\* commit and the undo of the committed transaction; none, when the commit or
\* the undo did not go through
UndoneAfter(d, us) ==
  LET done == commit(QueuedUpdates(start(Cur), d, us), "none")
      back == _meteorTransactionsUndo(done, done.out.txid)
  IN IF done.out.result = "done" /\ back.out.result = "undone"
     THEN {back.store[d].f}
     ELSE {}

\* C30: two queued updates of one transaction write the same field of the
\* same document, and each of them alone, committed and undone, gives the
\* field its value back: then the two together, committed and undone, give
\* the field its value from before the transaction
C30_SameFieldUpdatesUndone ==
  LET menu == UpdateMenu \cup {Op("$addToSet", <<Pair("b", Obj(2))>>)}
  IN \A d \in DocIds : \A u1 \in menu, u2 \in menu :
       (/\ _transaction_id = 0 /\ ~_rollback /\ nextTx <= MaxTx
        /\ store[d].exists
        /\ u1.data[1].key = u2.data[1].key
        /\ UndoneAfter(d, <<u1>>) = {store[d].f}
        /\ UndoneAfter(d, <<u2>>) = {store[d].f})
         => UndoneAfter(d, <<u1, u2>>) = {store[d].f}

\* the undo and the redo of transaction t by its id, where t is the one the
\* call selects
UndoRedoCalls(t) ==
  (IF UndoSelected(Cur, t) = {t} THEN {_meteorTransactionsUndo(Cur, t)} ELSE {})
  \cup (IF RedoSelected(Cur, t) = {t} THEN {_meteorTransactionsRedo(Cur, t)} ELSE {})

\* C31: an undo or a redo of T while the document of one of T's update or
\* soft-delete actions is missing from the store is refused as a whole: no
\* document is changed, T keeps its state and T is flagged expired
C31_MissingTargetRefuses ==
  \A t \in TxIds :
    LET items == Transactions[t].items
        missing == \E i \in 1..Len(items) :
                     /\ \/ items[i].action = "update"
                        \/ items[i].action = "remove" /\ ~items[i].hardDelete
                     /\ items[i]._id \in DocIds
                     /\ ~store[items[i]._id].exists
    IN \A s1 \in UndoRedoCalls(t) :
         missing => /\ s1.store = store
                    /\ s1.tr[t].state = Transactions[t].state
                    /\ s1.tr[t].expired

\* C32: an undo or a redo that reports expiry, called with or without an id,
\* has changed no document, no item, not the state of the transaction and no
\* undone or lastModified timestamp, and has made no call on the collection:
\* all it changed is expired = true on the transaction it selected
C32_ExpiryOnlyFlags ==
  LET calls == {_meteorTransactionsUndo(Cur, txid) : txid \in TxIds \cup {0}}
               \cup {_meteorTransactionsRedo(Cur, txid) : txid \in TxIds \cup {0}}
  IN \A s1 \in calls :
       s1.out.result = "expired" =>
         /\ s1.out.txid \in TxIds
         /\ ~Transactions[s1.out.txid].expired
         /\ s1.store = store
         /\ s1.tr = [Transactions EXCEPT ![s1.out.txid].expired = TRUE]
         /\ s1.undone = undone
         /\ s1.lastModified = lastModified
         /\ s1.out.writes = <<>>

\* the undo of T1, whose inserted document T2 updated since, has reported
\* expiry: T1 is flagged, its state and its items are as the commit left them
C32_Witness ==
  \E t1 \in TxIds, t2 \in TxIds, X \in DocIds :
    /\ InsertedThenUpdated(t1, t2, X)
    /\ Transactions[t1].expired
    /\ ~InSeq(undone, t1)
    /\ \A i \in 1..Len(Transactions[t1].items) : Transactions[t1].items[i].state = "done"
    /\ Transactions[t2].state = "done"

\* C33: in an open transaction an instant call applies its action to the store
\* at once and queues it as an instant item with state done, a call that is not
\* instant leaves the store as it is and queues an item with state pending; a
\* commit that succeeds makes one call on the collection for every item that
\* is not instant, in queue order, and none for an instant item
C33_AppliedOnce ==
  LET Kind(item) == CASE item.action = "insert" -> "insert"
                      [] item.action = "update" -> "update"
                      [] item.hardDelete -> "remove"
                      [] OTHER -> "softdelete"
      NotInstant(item) == ~item.instant
      queued == SelectSeq(_items, NotInstant)
  IN /\ \A c \in BuilderMenu :
          (/\ _transaction_id # 0 /\ ~_autoTransaction /\ ~_rollback
           /\ c.kind = "insert" => nextDoc <= MaxDoc) =>
            LET s1 == BuilderCall(Cur, c)
                n == Len(s1._items)
            IN ~s1._rollback =>
                 /\ n = Len(_items) + 1
                 /\ SubSeq(s1._items, 1, n - 1) = _items
                 /\ s1._items[n].action = c.kind
                 /\ s1._items[n].instant = c.instant
                 /\ s1._items[n].state = IF c.instant THEN "done" ELSE "pending"
                 /\ IF c.instant
                    THEN Contents(s1.store) =
                           Contents(Effect(store, s1._items[n], _transaction_id))
                    ELSE s1.store = store
     /\ \A s1 \in CommitOutcomes :
          s1.out.result = "done" =>
            /\ s1.out.writes = [i \in 1..Len(queued) |->
                                  [w |-> Kind(queued[i]), id |-> queued[i]._id]]
            /\ \A i \in 1..Len(_items) : s1.tr[_transaction_id].items[i].state = "done"

\* a transaction of a queued update and an instant update has been committed
C33_Witness ==
  \E t \in TxIds :
    /\ Transactions[t].state = "done"
    /\ Len(Transactions[t].items) = 2
    /\ LET i1 == Transactions[t].items[1]
           i2 == Transactions[t].items[2]
       IN /\ i1.action = "update" /\ ~i1.instant /\ i1.state = "done"
          /\ i2.action = "update" /\ i2.instant /\ i2.state = "done"
          /\ store[i1._id].exists /\ store[i1._id].transaction_id = t

\* C34: no step changes the items of a transaction that is done or undone
\* other than in their state: the record stays, with as many items in the same
\* order, and each item keeps its action, its document id, its flags and its
\* payload (newDoc, doc, update, inverse)
C34_CommittedItemsKept ==
  [][\A t \in TxIds :
       (Transactions[t].exists /\ Transactions[t].state \in {"done", "undone"}) =>
         /\ Transactions'[t].exists
         /\ Len(Transactions'[t].items) = Len(Transactions[t].items)
         /\ \A i \in 1..Len(Transactions[t].items) :
              [Transactions'[t].items[i] EXCEPT !.state = ""] =
                [Transactions[t].items[i] EXCEPT !.state = ""]]_vars

\* a committed transaction of two updates has been undone: both items are
\* marked undone and hold their update and their inverse
C34_Witness ==
  \E t \in TxIds :
    /\ Transactions[t].state = "undone"
    /\ Len(Transactions[t].items) = 2
    /\ \A i \in 1..2 :
         /\ Transactions[t].items[i].action = "update"
         /\ Transactions[t].items[i].state = "undone"
         /\ Transactions[t].items[i].update.command # ""
         /\ Transactions[t].items[i].inverse.command # ""

\* C35: the open transaction, one more queued call made, is committed and an
\* action fails in phase 2 (its write matches no document).  Phase 2 then has
\* made the calls of the queued items before the failed one and no other, has
\* marked those done and no item from the failed one on, and has left the
\* store as those calls make it.  The rollback that follows makes one call for
\* every instant item that has an inverse, whether or not an earlier call of it
\* threw, marks the record rolledBack and leaves the builder reset
C35_FailureStopsPhase2 ==
  LET Reverts(item) == item.instant /\ (item.action = "update" => item.inverse.command # "")
      Checked(s, t, n, p, s1) ==
        /\ s1.out.result = "failed" <=> ~p.success
        /\ ~p.success =>
             /\ \E k \in 1..n :
                  LET before == {j \in 1..(k - 1) : ~s._items[j].instant} IN
                  /\ ~s._items[k].instant
                  /\ s._items[k].action \in {"update", "remove"}
                  /\ ~p.store[s._items[k]._id].exists
                  /\ \A j \in before : p.tr[t].items[j].state = "done"
                  /\ \A j \in k..n : p.tr[t].items[j].state = s._items[j].state
                  /\ Len(p.writes) = Cardinality(before)
                  /\ Contents(p.store) =
                       Contents(Effects(s.store, SubSeq(s._items, 1, k - 1), t, FALSE))
             /\ LET made == SubSeq(s1.out.writes, Len(p.writes) + 1, Len(s1.out.writes))
                    reverting == SelectSeq(s._items, Reverts)
                IN /\ SubSeq(s1.out.writes, 1, Len(p.writes)) = p.writes
                   /\ Len(made) = Len(reverting)
                   /\ \A i \in 1..Len(reverting) : InSeq(made, InverseSeen(reverting[i]))
             /\ s1.tr[t].state = "rolledBack"
             /\ Clean(s1) /\ ~s1._autoTransaction /\ ~s1._autoCancel
      Committing(s) ==
        LET t == s._transaction_id
            snap == Snapshots(s._items, s.store)
        IN Checked(s, t, Len(s._items),
                   Phase2([store |-> s.store,
                           tr |-> [s.tr EXCEPT ![t] = TxRecord(snap)],
                           success |-> TRUE, threw |-> FALSE, cache |-> NoCache,
                           writes |-> <<>>], snap, 1, t),
                   commit(s, "none"))
  IN (_transaction_id # 0 /\ ~_autoTransaction /\ ~_rollback /\ _startAttempts = 0) =>
       \A c \in {x \in BuilderMenu : ~x.instant /\ x.kind # "insert"} :
         Committing(BuilderCall(Cur, c))

\* a commit has failed in phase 2 and the rollback has reverted the instant
\* insert of the transaction, whose queued update found no document
C35_Witness ==
  \E t \in TxIds :
    /\ Transactions[t].state = "rolledBack"
    /\ _transaction_id = 0
    /\ Len(Transactions[t].items) = 2
    /\ LET i1 == Transactions[t].items[1]
           i2 == Transactions[t].items[2]
       IN /\ i1.action = "insert" /\ i1.instant /\ i1.state = "rolledBack"
          /\ i2.action = "update" /\ ~i2.instant /\ i2.state = "rolledBack"
          /\ i2._id # i1._id
          /\ ~store[i1._id].exists
          /\ ~store[i2._id].exists

(***************************************************************************)
(* The server process dying inside a call of an open transaction: what the *)
(* two collections hold is what the call had written by then               *)
(***************************************************************************)
\* the states in which a call made in state s can be cut off between two of
\* its writes: an instant insert after collection.insert and before
\* _recordTransaction; an instant update or remove after _recordTransaction
\* and before the call on the collection; a commit after STEP 1 and the first
\* m items of STEP 2
CrashPoints(s) ==
  LET t == s._transaction_id
      snap == Snapshots(s._items, s.store)
      Step1 == IF s.tr[t].exists THEN [s.tr EXCEPT ![t].items = s._items]
               ELSE [s.tr EXCEPT ![t] = [TxRecord(snap) EXCEPT !.context = s._context,
                                                               !.user_id = s.userId]]
      Cut(p) == [s EXCEPT !.store = p.store, !.tr = p.tr,
                          !.lastModified = IF s.tr[t].exists THEN @ ELSE Stamp(@, t)]
  IN {[insert(s, NewDocFields, TRUE) EXCEPT !.tr = s.tr, !.lastModified = s.lastModified] :
        x \in {i \in {1} : s.nextDoc <= MaxDoc}}
     \cup {[update(s, id, u, TRUE) EXCEPT !.store = s.store] : id \in DocIds, u \in UpdateMenu}
     \cup {[remove(s, id, TRUE, sd) EXCEPT !.store = s.store] : id \in DocIds, sd \in BOOLEAN}
     \cup {Cut(Phase2([store |-> s.store, tr |-> Step1, success |-> TRUE, threw |-> FALSE,
                       cache |-> NoCache, writes |-> <<>>], SubSeq(snap, 1, m), 1, t)) :
             m \in {i \in 0..Len(s._items) : _checkTransactionFields(s._items, t, s.store)}}

\* the process dies at one of these points and is started again
Crash ==
  /\ _transaction_id # 0
  /\ ~_autoTransaction
  /\ ~_rollback
  /\ TotalItems < MaxTotalItems
  /\ \E r \in CrashPoints(Cur) : Becomes(selfRepair(Restarted(r)))

NextCrash ==
  \/ Start
  \/ Insert
  \/ Update
  \/ Remove
  \/ Commit
  \/ Crash

SpecCrash == Init /\ [][NextCrash]_vars

\* C36: write-ahead: every document that carries the id of a transaction (an
\* instant action or a phase-2 action of that transaction wrote it) is the
\* document of an item of the persisted record of that transaction
C36_WriteAhead ==
  \A d \in DocIds :
    (store[d].exists /\ store[d].transaction_id # 0) =>
      /\ Transactions[store[d].transaction_id].exists
      /\ d \in DocsOf(store[d].transaction_id)

\* C37: in every step the state of a persisted transaction stays as it is or
\* moves along pending -> done, pending -> rolledBack, done -> undone or
\* undone -> done, and its record is not removed
C37_StateMoves ==
  [][\A t \in TxIds :
       Transactions[t].exists =>
         /\ Transactions'[t].exists
         /\ \/ Transactions'[t].state = Transactions[t].state
            \/ <<Transactions[t].state, Transactions'[t].state>> \in
                 {<<"pending", "done">>, <<"pending", "rolledBack">>,
                  <<"done", "undone">>, <<"undone", "done">>}]_vars

\* C38: while one caller has a transaction open on the executor, another
\* caller's start, queued call and commit, and the commit of another builder
\* arriving as the process method, leave the first caller's open transaction
\* as it is: its id, its queued items and its record
C38_CallersIsolated ==
  (_transaction_id # 0 /\ ~_autoTransaction /\ ~_rollback) =>
    /\ \A c \in {x \in BuilderMenu : x.kind = "insert" => nextDoc <= MaxDoc} :
         LET b == commit(BuilderCall(start(Cur), c), "none")
         IN /\ b._transaction_id = _transaction_id
            /\ b._items = _items
    /\ \A s1 \in RemoteOutcomes :
         /\ s1._transaction_id = _transaction_id
         /\ s1._items = _items
         /\ s1.tr[_transaction_id] = Transactions[_transaction_id]

(***************************************************************************)
(* Callers of different identities: each call runs with the Meteor.userId() *)
(* of its caller                                                           *)
(***************************************************************************)
\* the users of the application
UserIds == {1, 2}

\* the next calls come from another user; no transaction is open in the builder
Login ==
  /\ _transaction_id = 0
  /\ \E u \in UserIds \ {userId} : userId' = u
  /\ UNCHANGED <<store, Transactions, _transaction_id, _items, _autoTransaction,
                 _startAttempts, _rollback, _rollbackReason, _autoCancel,
                 lastModified, undone, nextTx, nextDoc, calc, denied, _context>>

NextUsers ==
  \/ Start
  \/ Insert
  \/ Update
  \/ Remove
  \/ Commit
  \/ Undo
  \/ Redo
  \/ Login

SpecUsers == Init /\ [][NextUsers]_vars

\* C39: an undo or a redo called with the id of a transaction whose owner is
\* not the caller leaves that transaction as it is (not undone, not redone,
\* not flagged expired, not removed) and changes no document
C39_OwnerOnly ==
  \A t \in TxIds :
    (Transactions[t].exists /\ Transactions[t].user_id # userId) =>
      LET u == _meteorTransactionsUndo(Cur, t)
          r == _meteorTransactionsRedo(Cur, t)
      IN /\ u.tr[t] = Transactions[t] /\ u.store = store /\ u.undone = undone
         /\ r.tr[t] = Transactions[t] /\ r.store = store /\ r.undone = undone

\* C40: an undo or a redo, called with any id or with none, does not select a
\* transaction that is flagged expired, or whose state is pending or
\* rolledBack, and leaves its record as it is; called with the id of such a
\* transaction it finds nothing and changes no document; and no step takes the
\* expired flag off a transaction
C40_ExpiryAbsorbing ==
  /\ [](\A txid \in TxIds \cup {0} :
          \A s1 \in {_meteorTransactionsUndo(Cur, txid), _meteorTransactionsRedo(Cur, txid)} :
            \A t \in TxIds :
              (\/ Transactions[t].expired
               \/ Transactions[t].state \in {"pending", "rolledBack"}) =>
                /\ s1.tr[t] = Transactions[t]
                /\ s1.out.txid # t
                /\ txid = t => (s1.out.result = "none" /\ s1.store = store))
  /\ [][\A t \in TxIds : Transactions[t].expired =>
                           (Transactions'[t].exists /\ Transactions'[t].expired)]_vars

\* the redo of an undone transaction has reported expiry: the transaction is
\* flagged, still undone, and it is the latest undone one
C40_Witness ==
  \E t \in TxIds :
    /\ Transactions[t].expired
    /\ Transactions[t].state = "undone"
    /\ undone # <<>>
    /\ undone[Len(undone)] = t

====
